---- MODULE Spec2Model ----
(***************************************************************************)
(* Model of the containerized task runner of seqra:                        *)
(* RunGhcrContainer, CopyFileFromContainer and CopyToContainer.            *)
(*                                                                         *)
(* One run of RunGhcrContainer is a sequential process; pc is its          *)
(* position.  Every call to the Docker daemon client is appended to        *)
(* calls, whether it succeeds or not.  The outcome of each daemon or       *)
(* filesystem call is chosen nondeterministically.                         *)
(*                                                                         *)
(* logrus.Fatalf / logrus.Fatal log and then call os.Exit(1): the process  *)
(* ends at once and the deferred functions of RunGhcrContainer do NOT run. *)
(* A plain return (or a panic) runs the deferred functions in LIFO order.  *)
(***************************************************************************)
EXTENDS Integers, Sequences, FiniteSets, TLC

\* ---------------------------------------------------------------- bounds
NumInputs == 2
NumOutputs == 2
NumHostPaths == 2
MaxExitCode == 2

Inputs == 1..NumInputs
Outputs == 1..NumOutputs
HostPaths == 1..NumHostPaths
ExitCodes == 0..MaxExitCode

\* ------------------------------------------------------------------ state
VARIABLES
    pc,                 \* position in RunGhcrContainer
    copyFromContainer,  \* output mapping: container path (Outputs) -> host path
    imageLink,          \* image reference, as <<registry host, repository>>
    githubToken,        \* globals.Config.Github.Token, "" when not set
    dockerConfig,       \* local Docker config: [loadErr, password for ghcr.io]
    cfgLoaded,          \* cliconfig.Load was called
    options,            \* image.PullOptions.RegistryAuth, NoAuth when empty
    pullAuth,           \* RegistryAuth the pull request carried, Unsent before
    hostFiles,          \* host paths that exist (os.Stat succeeds)
    hostFiles0,         \* host paths that existed when the run was called
    checked,            \* outputs visited by the preflight loop
    staged,             \* inputs visited by the staging loop
    collected,          \* outputs visited by the collection loop
    calls,              \* daemon client calls issued so far, in order
    defers,             \* deferred functions of RunGhcrContainer (last = top)
    imagePullErr,       \* cli.ImagePull returned an error
    imageInspectErr,    \* what cli.ImageInspect returned: "unset", "nil", "err"
    created,            \* cli.ContainerCreate succeeded (resp.ID is a container)
    started,            \* cli.ContainerStart succeeded
    statusCode,         \* exit code received on statusCh, -1 if none received
    waitResolved,       \* what the select received: "none", "err", "nilErr", "status"
    out,                \* the log reader: "unset", "nil" (fetch failed), "open"
    fatalKind,          \* which logrus.Fatal ended the process, "none" if none
    fatalCode,          \* exit code carried by the non-zero-exit fatal, else -1
    panicking,          \* a deferred function panicked during the return
    tr,                 \* ExtractTar: the entries of the tar stream
    trPos,              \* ExtractTar: entries read so far
    basePath,           \* ExtractTar: basePath
    destPath,           \* ExtractTar: destPath
    isSourceDir,        \* ExtractTar: isSourceDir
    fs,                 \* ExtractTar: the host filesystem
    xResult,            \* ExtractTar: "running", "nil" (returned nil), "err"
    xFaulted,           \* ExtractTar: a read or write failed for an outside reason
    xLog,               \* ExtractTar: log lines, as <<level, entry index>>
    euid,               \* ExtractTar: the user of the process, "root" or "user"
    quiet,              \* globals.Config.Quiet
    reader,             \* the pull progress stream: what is still unread
    progress,           \* DisplayInteractiveProgress: what Decode returned
    layers,             \* DisplayInteractiveProgress: key -> line
    layerOrder,         \* DisplayInteractiveProgress: keys in rendering order
    printed,            \* DisplayInteractiveProgress: lines of the last redraw
    scans,              \* scan: invocations started so far
    tempDirName,        \* scan: the directory of os.MkdirTemp, <<>> when none
    absRuleSetPath,     \* scan: the ruleset in use, <<>> before it is resolved
    cleanup,            \* scan: the final os.RemoveAll: "none", "removed", "failed"
    expectedSize,       \* DownloadGithubReleaseAsset: asset.GetSize()
    rc,                 \* DownloadGithubReleaseAsset: the body still to be read
    written,            \* DownloadGithubReleaseAsset: bytes io.Copy has written
    dlResult            \* DownloadGithubReleaseAsset: how it returned, "none" before

vars == <<pc, copyFromContainer, imageLink, githubToken, dockerConfig,
          cfgLoaded, options, pullAuth, hostFiles, hostFiles0, checked, staged, collected, calls,
          defers, imagePullErr, imageInspectErr, created, started, statusCode,
          waitResolved, out, fatalKind, fatalCode, panicking, tr, trPos,
          basePath, destPath, isSourceDir, fs, xResult, xFaulted, xLog, euid,
          quiet, reader, progress, layers, layerOrder, printed,
          scans, tempDirName, absRuleSetPath, cleanup,
          expectedSize, rc, written, dlResult>>

\* The state of one ExtractTar call.
tarVars == <<tr, trPos, basePath, destPath, isSourceDir, fs, xResult, xFaulted,
            xLog, euid>>

\* The pull progress stream and the state of one DisplayInteractiveProgress
\* call.
pullVars == <<quiet, reader, progress, layers, layerOrder, printed>>

\* The state of the scan command and of one DownloadGithubReleaseAsset call.
scanVars == <<scans, tempDirName, absRuleSetPath, cleanup>>
assetVars == <<expectedSize, rc, written, dlResult>>

\* The state of one RunGhcrContainer call.
runVars == <<pc, copyFromContainer, imageLink, githubToken, dockerConfig,
             cfgLoaded, options, pullAuth, hostFiles, hostFiles0, checked,
             staged, collected, calls, defers, imagePullErr, imageInspectErr,
             created, started, statusCode, waitResolved, out, fatalKind,
             fatalCode, panicking>>

\* The image and credential inputs and the credential state.
credVars == <<imageLink, githubToken, dockerConfig, cfgLoaded, options, pullAuth>>

\* The process has ended: normal return, os.Exit(1) from logrus.Fatal, or a
\* panic that unwound the stack.
Terminated == pc \in {"done", "exited", "panicked"}

\* ------------------------------------------------------------------ paths
\* A path is the sequence of its characters; Sep is filepath.Separator.
Sep == "/"

\* Op applied to the value of v, v being computed once.
Eval(v, Op(_)) == CHOOSE y \in {Op(x) : x \in {v}} : TRUE

\* strings.TrimPrefix(s, prefix)
TrimPrefixNever(s, prefix) == s
TrimPrefix(s, prefix) ==
    IF Len(s) >= Len(prefix) /\ SubSeq(s, 1, Len(prefix)) = prefix
      THEN SubSeq(s, Len(prefix) + 1, Len(s))
      ELSE s

\* The components of s: the maximal runs of characters other than Sep.
RECURSIVE SplitFrom(_, _, _)
SplitFrom(s, i, cur) ==
    IF i > Len(s)
      THEN IF cur = <<>> THEN <<>> ELSE <<cur>>
      ELSE IF s[i] = Sep
             THEN (IF cur = <<>> THEN <<>> ELSE <<cur>>) \o SplitFrom(s, i + 1, <<>>)
             ELSE SplitFrom(s, i + 1, Append(cur, s[i]))
Components(s) == SplitFrom(s, 1, <<>>)

IsRooted(s) == Len(s) >= 1 /\ s[1] = Sep
Dot == <<".">>
DotDot == <<".", ".">>

\* filepath.Clean on components: "." is dropped, ".." removes the component
\* before it, is dropped at the root and is kept at the start of a relative
\* path.
RECURSIVE CleanFrom(_, _, _, _)
CleanFrom(cs, i, rooted, acc) ==
    IF i > Len(cs) THEN acc
    ELSE IF cs[i] = Dot THEN CleanFrom(cs, i + 1, rooted, acc)
    ELSE IF cs[i] = DotDot
      THEN IF acc # <<>> /\ acc[Len(acc)] # DotDot
             THEN CleanFrom(cs, i + 1, rooted, SubSeq(acc, 1, Len(acc) - 1))
             ELSE IF rooted THEN CleanFrom(cs, i + 1, rooted, acc)
                  ELSE CleanFrom(cs, i + 1, rooted, Append(acc, cs[i]))
    ELSE CleanFrom(cs, i + 1, rooted, Append(acc, cs[i]))

\* The path made of the components cs, rooted or not.
RECURSIVE Unsplit(_, _)
Unsplit(cs, i) ==
    IF i > Len(cs) THEN <<>>
    ELSE cs[i] \o (IF i < Len(cs) THEN <<Sep>> ELSE <<>>) \o Unsplit(cs, i + 1)
PathOf(cs, rooted) ==
    IF cs = <<>> THEN (IF rooted THEN <<Sep>> ELSE Dot)
    ELSE (IF rooted THEN <<Sep>> ELSE <<>>) \o Unsplit(cs, 1)

\* filepath.Clean(s)
Clean(s) ==
    IF s = <<>> THEN Dot
    ELSE Eval(Components(s), LAMBDA cs :
           Eval(CleanFrom(cs, 1, IsRooted(s), <<>>), LAMBDA cl :
             PathOf(cl, IsRooted(s))))

\* filepath.Join(a, b): empty elements are ignored, the rest are joined with
\* Sep and cleaned; the join of nothing is the empty path.
Join(a, b) ==
    IF a = <<>> /\ b = <<>> THEN <<>>
    ELSE IF a = <<>> THEN Clean(b)
    ELSE IF b = <<>> THEN Clean(a)
    ELSE Clean(a \o <<Sep>> \o b)

\* filepath.Dir(s): s up to its last separator, cleaned.
RECURSIVE LastSep(_, _)
LastSep(s, i) == IF i = 0 THEN 0 ELSE IF s[i] = Sep THEN i ELSE LastSep(s, i - 1)
Dir(s) ==
    LET k == LastSep(s, Len(s)) IN
      IF k = 0 THEN Dot ELSE Clean(SubSeq(s, 1, k))

\* ------------------------------------------------------- host filesystem
\* A filesystem maps the absolute clean paths that exist to what is there:
\* [kind |-> "dir" | "file" | "symlink", data |-> content or link target,
\*  mode |-> the owner's permission bits].
Root == <<Sep>>
DirObj == [kind |-> "dir", data |-> <<>>, mode |-> "rwx"]
FileObj(content) == [kind |-> "file", data |-> content, mode |-> "rw-"]
LinkObj(linkname) == [kind |-> "symlink", data |-> linkname, mode |-> "rwx"]

\* A directory with the permission bits perm: "rwx" (as 0755), or "r-x" (as
\* 0555, no entry can be added by its owner).
DirModes == {"rwx", "r-x"}
DirWithMode(perm) == [DirObj EXCEPT !.mode = perm]

\* The process may add an entry to the directory at physical path d:
\* root is not subject to the permission bits.
MayAddEntry(f, d) == euid = "root" \/ f[d].mode = "rwx"

Exists(f, p) == p \in DOMAIN f
Put(f, p, obj) == [q \in (DOMAIN f) \cup {p} |-> IF q = p THEN obj ELSE f[q]]

\* The last component of p (filepath.Base), as a path.
Base(p) == LET cs == Components(p) IN IF cs = <<>> THEN Root ELSE cs[Len(cs)]

\* How many symbolic links one lookup follows before it fails (ELOOP).
MaxLinkDepth == 3

\* The physical path that p names, every symbolic link on the way followed,
\* as the kernel walks it.  st is "ok"; "dangling" when the last component is
\* a link (or chain of links) to a path that does not exist; "bad" when a
\* directory component is such a link or too many links were followed.
RECURSIVE Walk(_, _, _, _, _)
RECURSIVE WalkAt(_, _, _, _, _, _)

\* The walk after the link at component i was followed to r.
WalkAfterLink(f, cs, i, fuel, r) ==
    IF r.st = "ok" /\ Exists(f, r.path)
      THEN Walk(f, cs, i + 1, r.path, fuel)
      ELSE IF r.st # "bad" /\ i = Len(cs)
             THEN [path |-> r.path, st |-> "dangling"]
             ELSE [path |-> r.path, st |-> "bad"]

\* The walk at component i, nxt being the path of that component.
WalkAt(f, cs, i, cur, fuel, nxt) ==
    IF Exists(f, nxt) /\ f[nxt].kind = "symlink"
      THEN IF fuel = 0 THEN [path |-> nxt, st |-> "bad"]
           ELSE
             LET tgt == f[nxt].data
                 abs == IF IsRooted(tgt) THEN Clean(tgt) ELSE Join(cur, tgt)
             IN Eval(Components(abs), LAMBDA tcs :
                  Eval(Walk(f, tcs, 1, Root, fuel - 1), LAMBDA r :
                    WalkAfterLink(f, cs, i, fuel, r)))
      ELSE Walk(f, cs, i + 1, nxt, fuel)

Walk(f, cs, i, cur, fuel) ==
    IF i > Len(cs) THEN [path |-> cur, st |-> "ok"]
    ELSE Eval(Join(cur, cs[i]), LAMBDA nxt : WalkAt(f, cs, i, cur, fuel, nxt))

Phys(f, p) ==
    Eval(Components(p), LAMBDA cs : Walk(f, cs, 1, Root, MaxLinkDepth))

\* The prefixes of the absolute path p, shortest first, p included.
Prefixes(p) ==
    LET cs == Components(p) IN
      [k \in 1..Len(cs) |-> PathOf(SubSeq(cs, 1, k), TRUE)]

\* os.MkdirAll(p, perm): every missing directory of p is created with perm;
\* an error when a component exists and is not a directory, or when a
\* directory is missing and the process may not add an entry to its parent.
\* [ok, fs]: fs is the filesystem afterwards (on an error, with the
\* directories created before it).
RECURSIVE MkdirFrom(_, _, _, _)
MkdirFrom(f, pre, k, perm) ==
    IF k > Len(pre) THEN [ok |-> TRUE, fs |-> f]
    ELSE IF Exists(f, pre[k])
           THEN IF f[pre[k]].kind = "dir" THEN MkdirFrom(f, pre, k + 1, perm)
                ELSE [ok |-> FALSE, fs |-> f]
           ELSE IF ~MayAddEntry(f, Dir(pre[k])) THEN [ok |-> FALSE, fs |-> f]
           ELSE Eval(Put(f, pre[k], DirWithMode(perm)),
                     LAMBDA g : MkdirFrom(g, pre, k + 1, perm))
MkdirAll(f, p, perm) ==
    Eval(Phys(f, p), LAMBDA r :
      IF r.st # "ok" THEN [ok |-> FALSE, fs |-> f]
      ELSE Eval(Prefixes(r.path), LAMBDA pre : MkdirFrom(f, pre, 1, perm)))

\* The directory entry p itself: its directory resolved, its last component
\* not.
Entry(f, p) ==
    Eval(Phys(f, Dir(p)), LAMBDA d :
      [path |-> Join(d.path, Base(p)), ok |-> d.st = "ok"])

\* The parent directory of the physical path q exists.
ParentIsDir(f, q) == Exists(f, Dir(q)) /\ f[Dir(q)].kind = "dir"

\* os.Create(p) and the write of content: the file is created or truncated,
\* through a symbolic link if p is one; an error when p is a directory, its
\* directory is missing, or the file is missing and the process may not add
\* an entry to its directory.
Create(f, p, content) ==
    Eval(Phys(f, p), LAMBDA r :
      IF /\ Entry(f, p).ok
         /\ r.st # "bad"
         /\ ParentIsDir(f, r.path)
         /\ Exists(f, r.path) => f[r.path].kind = "file"
         /\ ~Exists(f, r.path) => MayAddEntry(f, Dir(r.path))
        THEN [ok |-> TRUE, fs |-> Put(f, r.path, FileObj(content))]
        ELSE [ok |-> FALSE, fs |-> f])

\* os.Symlink(linkname, p): an error when anything exists at p or the
\* process may not add an entry to its directory.
Symlink(f, linkname, p) ==
    Eval(Entry(f, p), LAMBDA e :
      IF /\ e.ok /\ ParentIsDir(f, e.path) /\ ~Exists(f, e.path)
         /\ MayAddEntry(f, Dir(e.path))
        THEN [ok |-> TRUE, fs |-> Put(f, e.path, LinkObj(linkname))]
        ELSE [ok |-> FALSE, fs |-> f])

\* ------------------------------------------------------------ helpers
\* A fatal log call that only logs: the process goes on where it is.
FatalLogOnly(kind, code) ==
    /\ pc' = pc
    /\ fatalKind' = kind
    /\ fatalCode' = code

\* logrus.Fatalf(...): log, then os.Exit(1).  Deferred functions are skipped;
\* defers is left as it is and never run.
Fatal(kind, code) ==
    /\ pc' = "exited"
    /\ fatalKind' = kind
    /\ fatalCode' = code

NoFatal == UNCHANGED <<fatalKind, fatalCode>>

\* os.Stat(path) returned err == nil.
StatExists(path) == path \in hostFiles

\* The mappings the preflight loop ranges over (range copyFromContainer).
PreflightFirstOnly == {1}
PreflightRange == Outputs

\* The error reported when ImageInspect failed: the pull error if the pull
\* failed as well, the inspect error otherwise.
ReportInspectAlways(pullErr) == "inspect"
InspectFailureReport(pullErr) == IF pullErr THEN "pull" ELSE "inspect"

\* Where the run goes after ImageInspect returned.
AfterInspectIgnoreErr(inspectErr) == "create"
AfterImageInspect(inspectErr) == IF inspectErr THEN "exited" ELSE "create"

\* scan has not been invoked and no asset download is running.
NoScan ==
    /\ scans = 0
    /\ tempDirName = <<>>
    /\ absRuleSetPath = <<>>
    /\ cleanup = "none"
    /\ expectedSize = 0
    /\ rc = <<>>
    /\ written = 0
    /\ dlResult = "none"

\* No pull stream is open and DisplayInteractiveProgress is not running.
NoDisplay ==
    /\ reader = <<>>
    /\ progress = [err |-> "nil", id |-> "", status |-> "", progress |-> ""]
    /\ layers = <<>>
    /\ layerOrder = <<>>
    /\ printed = <<>>

\* --------------------------------------------------- RunGhcrContainer
\* for _, copyTo := range copyFromContainer { if os.Stat(copyTo) ok: Fatalf }
\* Go ranges over a map in an unspecified order.
PreflightStat ==
    /\ pc = "preflight"
    /\ \E o \in PreflightRange \ checked :
         /\ checked' = checked \cup {o}
         /\ IF StatExists(copyFromContainer[o])
              THEN Fatal("preflight", -1)
              ELSE pc' = "preflight" /\ NoFatal
    /\ UNCHANGED <<scanVars, assetVars, tarVars, pullVars, copyFromContainer, credVars, hostFiles, hostFiles0, staged, collected,
                   calls, defers, imagePullErr, imageInspectErr, created, started, statusCode, waitResolved,
                   out, panicking>>

\* NewClient with the close issued at once instead of deferred.
NewClientCloseNow ==
    /\ pc = "preflight"
    /\ PreflightRange \subseteq checked
    /\ \E ok \in BOOLEAN :
         IF ok
           THEN /\ pc' = "auth"
                /\ calls' = Append(calls, "Close")
                /\ NoFatal
           ELSE /\ Fatal("client", -1)
                /\ UNCHANGED calls
    /\ UNCHANGED <<scanVars, assetVars, tarVars, pullVars, copyFromContainer, credVars, hostFiles, hostFiles0, checked, staged,
                   collected, defers, imagePullErr, imageInspectErr, created,
                   started, statusCode, waitResolved, out, panicking>>

\* The preflight loop is over; client.NewClientWithOpts.  On success the
\* deferred cli.Close() is registered.
NewClient ==
    /\ pc = "preflight"
    /\ PreflightRange \subseteq checked
    /\ \E ok \in BOOLEAN :
         IF ok
           THEN /\ pc' = "auth"
                /\ defers' = Append(defers, "cliClose")
                /\ NoFatal
           ELSE /\ Fatal("client", -1)
                /\ UNCHANGED defers
    /\ UNCHANGED <<scanVars, assetVars, tarVars, pullVars, copyFromContainer, credVars, hostFiles, hostFiles0, checked, staged,
                   collected, calls, imagePullErr, imageInspectErr, created, started,
                   statusCode, waitResolved, out, panicking>>

\* ---------------------------------------------------------- credentials
\* const GithubDockerHost = "ghcr.io"; const ghcrUsername = "USERNAME"
GithubDockerHost == "ghcr.io"
ghcrUsername == "USERNAME"

ImageLinks == {<<"ghcr.io", "seqra/img">>, <<"docker.io", "seqra/img">>}
Tokens == {"", "tok"}
DockerConfigs ==
    {[loadErr |-> TRUE, password |-> ""],
     [loadErr |-> FALSE, password |-> ""],
     [loadErr |-> FALSE, password |-> "stored"]}

\* strings.HasPrefix(imageLink, host), the link held as <<host, repository>>.
HasPrefix(link, host) == Len(link) >= 1 /\ link[1] = host

\* image.PullOptions{}: no RegistryAuth; and the value before any pull.
NoAuth == <<"none">>
Unsent == <<"unsent">>

\* base64.URLEncoding.EncodeToString(json.Marshal(registry.AuthConfig{
\*     Username: username, Password: password}))
EncodeAuth(username, password) ==
    <<"base64url", <<"json", [Username |-> username, Password |-> password]>>>>

\* The password used: the explicit token, or with an empty token the
\* password the credential store holds.
ResolvePasswordStoreFirst(token, storePassword) ==
    IF storePassword # "" THEN storePassword ELSE token
ResolvePassword(token, storePassword) ==
    IF token = "" THEN storePassword ELSE token

\* if strings.HasPrefix(imageLink, GithubDockerHost) { ... }: the
\* credential for the pull.  cliconfig.Load is called only with an empty
\* token and its failure is fatal; the error of GetAuthConfig is dropped.
ResolveCredential ==
    /\ pc = "auth"
    /\ IF HasPrefix(imageLink, GithubDockerHost)
         THEN /\ cfgLoaded' = (githubToken = "")
              /\ IF githubToken = "" /\ dockerConfig.loadErr
                   THEN /\ Fatal("config", -1)
                        /\ UNCHANGED options
                   ELSE LET password ==
                              ResolvePassword(githubToken, dockerConfig.password)
                        IN /\ options' = IF password # ""
                                           THEN EncodeAuth(ghcrUsername, password)
                                           ELSE NoAuth
                           /\ pc' = "pull"
                           /\ NoFatal
         ELSE /\ pc' = "pull"
              /\ NoFatal
              /\ UNCHANGED <<cfgLoaded, options>>
    /\ UNCHANGED <<scanVars, assetVars, tarVars, pullVars, copyFromContainer, imageLink, githubToken, dockerConfig,
                   pullAuth, hostFiles, hostFiles0, checked, staged, collected,
                   calls, defers, imagePullErr, imageInspectErr, created,
                   started, statusCode, waitResolved, out, panicking>>

\* ------------------------------------------------ pull progress stream
\* What the stream holds: progress events (JSON objects), a JSON value of
\* another shape, bytes that are not JSON; and how it ends: closed cleanly
\* ("eof"), closed in the middle of an event ("cut"), or a read error.
MaxEvents == 2
MaxPullEvents == 1
EventIds == {"", "a"}
Statuses == {"s", "t"}
ProgressTexts == {"", "p"}
Item(kind, id, status, prog) ==
    [kind |-> kind, id |-> id, status |-> status, progress |-> prog]
Events ==
    {Item("event", i, st, pr) : i \in EventIds, st \in Statuses, pr \in ProgressTexts}
Terminators == {Item(k, "", "", "") : k \in {"eof", "cut", "readErr"}}
StreamsOver(items, n) ==
    UNION {{body \o <<end>> : body \in [1..k -> items], end \in Terminators} :
             k \in 0..n}

\* The streams a call of DisplayInteractiveProgress is given, and those a
\* pull of RunGhcrContainer answers with.
Streams ==
    StreamsOver(Events \cup {Item("wrongType", "", "", ""), Item("syntax", "", "", "")},
                MaxEvents)
PullStreams ==
    StreamsOver({Item("event", "a", "s", ""), Item("syntax", "", "", "")},
                MaxPullEvents)

\* The stream after everything was read from it: only its end is left.
Drained(rd) == <<rd[Len(rd)]>>
IsDrained(rd) == Len(rd) = 1

\* var progress struct{...}: the zero value, with no error.
ZeroProgress == [err |-> "nil", id |-> "", status |-> "", progress |-> ""]

\* The key and the line of an event: its ID, or "message_" + Status for an
\* event without ID; fmt.Sprintf("%s: %s %s" / "%s: %s") or the status.
KeyOf(ev) == IF ev.id # "" THEN <<ev.id>> ELSE <<"message_", ev.status>>
LineOf(ev) ==
    IF ev.id = "" THEN <<ev.status>>
    ELSE IF ev.progress # "" THEN <<ev.id, ": ", ev.status, " ", ev.progress>>
    ELSE <<ev.id, ": ", ev.status>>

\* A decoder for which every failure is the end of the stream.
DecodeErrAsEOF(head) == IF head.kind = "event" THEN "nil" ELSE "EOF"

\* decoder.Decode(&progress) on a stream whose next item is head: the error
\* returned, and whether the item is consumed.  A syntax error, a read error
\* and an end in the middle of a value are kept by the decoder (dec.err) and
\* returned again by every later call; so is io.EOF.  A value of the wrong
\* shape is consumed and its error is not kept.
DecodeErr(head) ==
    CASE head.kind = "event" -> "nil"
      [] head.kind = "wrongType" -> "type"
      [] head.kind = "syntax" -> "syntax"
      [] head.kind = "cut" -> "unexpectedEOF"
      [] head.kind = "readErr" -> "read"
      [] OTHER -> "EOF"

Consumed(head) == head.kind \in {"event", "wrongType"}

\* for { ... decoder.Decode(&progress) ...
Decode ==
    /\ pc = "decode"
    /\ LET head == Head(reader) IN
         /\ progress' = [err |-> DecodeErr(head), id |-> head.id,
                         status |-> head.status, progress |-> head.progress]
         /\ reader' = IF Consumed(head) THEN Tail(reader) ELSE reader
    /\ pc' = "handle"
    /\ UNCHANGED <<scanVars, assetVars, tarVars, quiet, layers, layerOrder, printed, copyFromContainer,
                   credVars, hostFiles, hostFiles0, checked, staged, collected,
                   calls, defers, imagePullErr, imageInspectErr, created,
                   started, statusCode, waitResolved, out, fatalKind,
                   fatalCode, panicking>>

\* layerOrder after the event: an ID is appended when layers does not hold
\* it; the key of an event without ID is appended every time.
OrderAfter(order, lay, ev) ==
    IF ev.id # "" /\ KeyOf(ev) \in DOMAIN lay THEN order
    ELSE Append(order, KeyOf(ev))

\* for _, id := range layerOrder { if status, exists := layers[id] ... Println }
Redraw(order, lay) ==
    LET shown == SelectSeq(order, LAMBDA k : k \in DOMAIN lay)
    IN [i \in 1..Len(shown) |-> lay[shown[i]]]

\* ... the rest of the loop body: io.EOF ends the loop, the display is
\* cleared and the function returns; any other error goes on to the next
\* Decode; an event updates layers and layerOrder and the display is redrawn.
HandleEvent ==
    /\ pc = "handle"
    /\ CASE progress.err = "EOF" ->
              /\ pc' = "inspect"
              /\ layers' = <<>> /\ layerOrder' = <<>> /\ printed' = <<>>
         [] progress.err = "nil" ->
              /\ pc' = "decode"
              /\ layerOrder' = OrderAfter(layerOrder, layers, progress)
              /\ layers' = Put(layers, KeyOf(progress), LineOf(progress))
              /\ printed' = Redraw(layerOrder', layers')
         [] OTHER ->
              /\ pc' = "decode"
              /\ UNCHANGED <<layers, layerOrder, printed>>
    /\ progress' = ZeroProgress
    /\ UNCHANGED <<scanVars, assetVars, tarVars, quiet, reader, copyFromContainer,
                   credVars, hostFiles, hostFiles0, checked, staged, collected,
                   calls, defers, imagePullErr, imageInspectErr, created,
                   started, statusCode, waitResolved, out, fatalKind,
                   fatalCode, panicking>>

\* _, _ = io.Copy(io.Discard, reader): reads until the stream ends, cleanly
\* or with an error; the error is dropped.
DrainQuiet ==
    /\ pc = "drain"
    /\ reader' = Drained(reader)
    /\ pc' = "inspect"
    /\ UNCHANGED <<scanVars, assetVars, tarVars, quiet, progress, layers, layerOrder, printed,
                   copyFromContainer, credVars, hostFiles, hostFiles0, checked,
                   staged, collected, calls, defers, imagePullErr,
                   imageInspectErr, created, started, statusCode, waitResolved,
                   out, fatalKind, fatalCode, panicking>>

\* cli.ImagePull(ctx, imageLink, options).  On success the deferred
\* reader.Close() is registered and the progress stream is read: by io.Copy
\* when Config.Quiet, by log.DisplayInteractiveProgress otherwise.
ImagePull ==
    /\ pc = "pull"
    /\ calls' = Append(calls, "ImagePull")
    /\ pullAuth' = options
    /\ \E ok \in BOOLEAN :
         /\ imagePullErr' = ~ok
         /\ defers' = IF ok THEN Append(defers, "readerClose") ELSE defers
         /\ IF ok
              THEN /\ reader' \in PullStreams
                   /\ pc' = IF quiet THEN "drain" ELSE "decode"
              ELSE /\ UNCHANGED reader
                   /\ pc' = "inspect"
    /\ NoFatal
    /\ UNCHANGED <<scanVars, assetVars, tarVars, quiet, progress, layers, layerOrder, printed,
                   copyFromContainer, imageLink, githubToken, dockerConfig,
                   cfgLoaded, options, hostFiles, hostFiles0, checked, staged,
                   collected, imageInspectErr, created, started, statusCode,
                   waitResolved, out, panicking>>

\* cli.ImageInspect; a failure is fatal and reports the pull error when the
\* pull failed too.
ImageInspect ==
    /\ pc = "inspect"
    /\ calls' = Append(calls, "ImageInspect")
    /\ \E inspectErr \in BOOLEAN :
         /\ imageInspectErr' = IF inspectErr THEN "err" ELSE "nil"
         /\ pc' = AfterImageInspect(inspectErr)
         /\ IF inspectErr
              THEN /\ fatalKind' = InspectFailureReport(imagePullErr)
                   /\ fatalCode' = -1
              ELSE NoFatal
    /\ UNCHANGED <<scanVars, assetVars, tarVars, pullVars, copyFromContainer, credVars, hostFiles, hostFiles0, checked, staged,
                   collected, defers, imagePullErr, created, started,
                   statusCode, waitResolved, out, panicking>>

\* cli.ContainerCreate.
ContainerCreate ==
    /\ pc = "create"
    /\ calls' = Append(calls, "ContainerCreate")
    /\ \E ok \in BOOLEAN :
         IF ok
           THEN /\ created' = TRUE
                /\ pc' = "stage"
                /\ NoFatal
           ELSE /\ Fatal("create", -1)
                /\ UNCHANGED created
    /\ UNCHANGED <<scanVars, assetVars, tarVars, pullVars, copyFromContainer, credVars, hostFiles, hostFiles0, checked, staged,
                   collected, defers, imagePullErr, imageInspectErr, started, statusCode, waitResolved, out,
                   panicking>>

\* CopyToContainer whose error the staging loop does not see.
CopyToContainerLenient(outcome) ==
    [issued |-> outcome \in {"uploadErr", "closeErr", "ok"}, fatal |-> "none"]

\* CopyToContainer(cli, ctx, resp.ID, copyFrom, copyTo): what one call does,
\* by how it ends.  issued: the daemon's CopyToContainer was called;
\* fatal: the logrus.Fatal that ends the process, "none" when it returned nil.
\*   statErr   os.Stat(localDir) failed               -> returns an error
\*   tarErr    archive.TarWithOptions failed          -> returns an error
\*   uploadErr cli.CopyToContainer failed             -> returns an error
\*   closeErr  the deferred tarStream.Close() failed  -> Fatalf in the defer
\*   ok        uploaded, stream closed                -> returns nil
CopyToOutcomes == {"statErr", "tarErr", "uploadErr", "closeErr", "ok"}
CopyToContainer(outcome) ==
    [issued |-> outcome \in {"uploadErr", "closeErr", "ok"},
     fatal  |-> CASE outcome = "ok" -> "none"
                  [] outcome = "closeErr" -> "tarClose"
                  [] OTHER -> "stage"]

\* for copyFrom, copyTo := range copyToContainer { CopyToContainer(...) }
StageInput ==
    /\ pc = "stage"
    /\ \E i \in Inputs \ staged : \E outcome \in CopyToOutcomes :
         LET r == CopyToContainer(outcome) IN
           /\ staged' = staged \cup {i}
           /\ calls' = IF r.issued THEN Append(calls, "CopyToContainer")
                       ELSE calls
           /\ IF r.fatal = "none"
                THEN pc' = "stage" /\ NoFatal
                ELSE Fatal(r.fatal, -1)
    /\ UNCHANGED <<scanVars, assetVars, tarVars, pullVars, copyFromContainer, credVars, hostFiles, hostFiles0, checked,
                   collected, defers, imagePullErr, imageInspectErr, created, started,
                   statusCode, waitResolved, out, panicking>>

\* The staging loop is over; cli.ContainerStart.  On success the deferred
\* cli.ContainerKill(SIGKILL) is registered.
ContainerStart ==
    /\ pc = "stage"
    /\ staged = Inputs
    /\ calls' = Append(calls, "ContainerStart")
    /\ \E ok \in BOOLEAN :
         IF ok
           THEN /\ started' = TRUE
                /\ defers' = Append(defers, "kill")
                /\ pc' = "wait"
                /\ NoFatal
           ELSE /\ Fatal("start", -1)
                /\ UNCHANGED <<started, defers>>
    /\ UNCHANGED <<scanVars, assetVars, tarVars, pullVars, copyFromContainer, credVars, hostFiles, hostFiles0, checked, staged,
                   collected, imagePullErr, imageInspectErr, created, statusCode, waitResolved, out,
                   panicking>>

\* statusCh, errCh := cli.ContainerWait(...): returns the two channels at
\* once; the runner then blocks in the select.
ContainerWait ==
    /\ pc = "wait"
    /\ calls' = Append(calls, "ContainerWait")
    /\ pc' = "select"
    /\ NoFatal
    /\ UNCHANGED <<scanVars, assetVars, tarVars, pullVars, copyFromContainer, credVars, hostFiles, hostFiles0, checked, staged,
                   collected, defers, imagePullErr, imageInspectErr, created, started,
                   statusCode, waitResolved, out, panicking>>

\* case err := <-errCh: a non-nil error is fatal; a nil value leaves the
\* select and goes on to the output loop.
ErrChValues == {"err", "nil"}

\* SelectErrCh that, on an error, goes on to read the status channel.
SelectErrChThenStatus ==
    /\ pc = "select"
    /\ \E e \in ErrChValues :
         IF e = "err"
           THEN /\ waitResolved' = "err"
                /\ \E k \in ExitCodes : statusCode' = k
                /\ pc' = "cinspect"
           ELSE /\ waitResolved' = "nilErr"
                /\ pc' = "collect"
                /\ UNCHANGED statusCode
    /\ NoFatal
    /\ UNCHANGED <<scanVars, assetVars, tarVars, pullVars, copyFromContainer, credVars, hostFiles, hostFiles0, checked, staged,
                   collected, calls, defers, imagePullErr, imageInspectErr,
                   created, started, out, panicking>>

SelectErrCh ==
    /\ pc = "select"
    /\ \E e \in ErrChValues :
         IF e = "err"
           THEN waitResolved' = "err" /\ Fatal("wait", -1)
           ELSE waitResolved' = "nilErr" /\ pc' = "collect" /\ NoFatal
    /\ UNCHANGED <<scanVars, assetVars, tarVars, pullVars, copyFromContainer, credVars, hostFiles, hostFiles0, checked, staged,
                   collected, calls, defers, imagePullErr, imageInspectErr, created, started,
                   statusCode, out, panicking>>

\* SelectStatusCh with a third case that gives up the wait (a timeout) and
\* returns.
SelectStatusOrTimeout ==
    /\ pc = "select"
    /\ \/ /\ \E k \in ExitCodes : statusCode' = k
          /\ waitResolved' = "status"
          /\ pc' = "cinspect"
       \/ /\ pc' = "return"
          /\ UNCHANGED <<statusCode, waitResolved>>
    /\ NoFatal
    /\ UNCHANGED <<scanVars, assetVars, tarVars, pullVars, copyFromContainer, credVars, hostFiles, hostFiles0, checked, staged,
                   collected, calls, defers, imagePullErr, imageInspectErr,
                   created, started, out, panicking>>

\* case statusBody := <-statusCh
SelectStatusCh ==
    /\ pc = "select"
    /\ \E k \in ExitCodes : statusCode' = k
    /\ waitResolved' = "status"
    /\ pc' = "cinspect"
    /\ NoFatal
    /\ UNCHANGED <<scanVars, assetVars, tarVars, pullVars, copyFromContainer, credVars, hostFiles, hostFiles0, checked, staged,
                   collected, calls, defers, imagePullErr, imageInspectErr, created, started,
                   out, panicking>>

\* cli.ContainerInspect, then time.Parse of StartedAt and of FinishedAt;
\* each failure is fatal.
InspectOutcomes == {"inspectErr", "startErr", "endErr", "ok"}
ContainerInspect ==
    /\ pc = "cinspect"
    /\ calls' = Append(calls, "ContainerInspect")
    /\ \E outcome \in InspectOutcomes :
         CASE outcome = "inspectErr" -> Fatal("cinspect", -1)
           [] outcome = "startErr"   -> Fatal("parseStart", -1)
           [] outcome = "endErr"     -> Fatal("parseEnd", -1)
           [] OTHER                  -> pc' = "logs" /\ NoFatal
    /\ UNCHANGED <<scanVars, assetVars, tarVars, pullVars, copyFromContainer, credVars, hostFiles, hostFiles0, checked, staged,
                   collected, defers, imagePullErr, imageInspectErr, created, started,
                   statusCode, waitResolved, out, panicking>>

\* out, err := cli.ContainerLogs(...); defer out.Close() is registered before
\* err is looked at.  On an error the function returns at once (the deferred
\* functions run); the reader that comes with the error is nil, or a reader.
ContainerLogs ==
    /\ pc = "logs"
    /\ calls' = Append(calls, "ContainerLogs")
    /\ defers' = Append(defers, "outClose")
    /\ \E ok \in BOOLEAN :
         /\ out' \in (IF ok THEN {"open"} ELSE {"nil", "open"})
         /\ pc' = IF ok THEN "stdcopy" ELSE "return"
    /\ NoFatal
    /\ UNCHANGED <<scanVars, assetVars, tarVars, pullVars, copyFromContainer, credVars, hostFiles, hostFiles0, checked, staged,
                   collected, imagePullErr, imageInspectErr, created, started, statusCode, waitResolved,
                   panicking>>

\* stdcopy.StdCopy into the buffer (an error is fatal), then the scanner
\* loop, whose error is only logged.
StdCopy ==
    /\ pc = "stdcopy"
    /\ \E ok \in BOOLEAN :
         IF ok THEN pc' = "exitcheck" /\ NoFatal
               ELSE Fatal("stdcopy", -1)
    /\ UNCHANGED <<scanVars, assetVars, tarVars, pullVars, copyFromContainer, credVars, hostFiles, hostFiles0, checked, staged,
                   collected, calls, defers, imagePullErr, imageInspectErr, created, started,
                   statusCode, waitResolved, out, panicking>>

\* if statusBody.StatusCode != 0 { Fatalf(... exit code) }
ExitCodeCheck ==
    /\ pc = "exitcheck"
    /\ IF statusCode # 0
         THEN Fatal("nonzero", statusCode)
         ELSE pc' = "collect" /\ NoFatal
    /\ UNCHANGED <<scanVars, assetVars, tarVars, pullVars, copyFromContainer, credVars, hostFiles, hostFiles0, checked, staged,
                   collected, calls, defers, imagePullErr, imageInspectErr, created, started,
                   statusCode, waitResolved, out, panicking>>

\* CopyFileFromContainer(cli, ctx, resp.ID, copyFrom, copyTo): what one call
\* does, by how it ends.  issued: the daemon's CopyFromContainer was called;
\* wrote: what may have been written at hostPath ("no", "maybe", "yes");
\* fatal: the logrus.Fatal that ends the process, "none" when it returned nil.
\*   exists     os.Stat(hostPath) succeeded           -> returns an error
\*   copyErr    cli.CopyFromContainer failed          -> returns an error
\*   extractErr utils.ExtractTar failed partway       -> returns an error
\*   closeErr   the deferred reader.Close() failed    -> Fatalf in the defer
\*   ok         extracted, reader closed              -> returns nil
CopyFromOutcomes == {"copyErr", "extractErr", "closeErr", "ok"}

\* CopyFileFromContainer that returns nil without having extracted anything.
CopyFileFromContainerNoWrite(outcome) ==
    [issued |-> outcome # "exists",
     wrote  |-> "no",
     fatal  |-> CASE outcome = "ok" -> "none"
                  [] outcome = "closeErr" -> "archiveClose"
                  [] OTHER -> "collect"]

CopyFileFromContainer(outcome) ==
    [issued |-> outcome # "exists",
     wrote  |-> CASE outcome \in {"exists", "copyErr"} -> "no"
                  [] outcome = "ok" -> "yes"
                  [] OTHER -> "maybe",
     fatal  |-> CASE outcome = "ok" -> "none"
                  [] outcome = "closeErr" -> "archiveClose"
                  [] OTHER -> "collect"]

\* for copyFrom, copyTo := range copyFromContainer {
\*     CopyFileFromContainer(...); on an error: Fatalf }
CollectOutput ==
    /\ pc = "collect"
    /\ \E o \in Outputs \ collected :
       \E outcome \in (IF StatExists(copyFromContainer[o])
                         THEN {"exists"} ELSE CopyFromOutcomes) :
         LET r == CopyFileFromContainer(outcome)
             path == copyFromContainer[o] IN
           /\ collected' = collected \cup {o}
           /\ calls' = IF r.issued THEN Append(calls, "CopyFromContainer")
                       ELSE calls
           /\ hostFiles' \in CASE r.wrote = "no"  -> {hostFiles}
                               [] r.wrote = "yes" -> {hostFiles \cup {path}}
                               [] OTHER -> {hostFiles, hostFiles \cup {path}}
           /\ IF r.fatal = "none"
                THEN pc' = "collect" /\ NoFatal
                ELSE Fatal(r.fatal, -1)
    /\ UNCHANGED <<scanVars, assetVars, tarVars, pullVars, copyFromContainer, credVars, hostFiles0, checked, staged, defers,
                   imagePullErr, imageInspectErr, created, started, statusCode, waitResolved, out,
                   panicking>>

\* ContainerStop whose error is logged and not fatal.
ContainerStopIgnoreErr ==
    /\ pc = "collect"
    /\ collected = Outputs
    /\ calls' = Append(calls, "ContainerStop")
    /\ \E ok \in BOOLEAN :
         /\ pc' = "remove"
         /\ fatalKind' = IF ok THEN fatalKind ELSE "stop"
         /\ UNCHANGED fatalCode
    /\ UNCHANGED <<scanVars, assetVars, tarVars, pullVars, copyFromContainer, credVars, hostFiles, hostFiles0, checked, staged,
                   collected, defers, imagePullErr, imageInspectErr, created, started,
                   statusCode, waitResolved, out, panicking>>

\* The output loop is over; cli.ContainerStop, fatal on an error.
ContainerStop ==
    /\ pc = "collect"
    /\ collected = Outputs
    /\ calls' = Append(calls, "ContainerStop")
    /\ \E ok \in BOOLEAN :
         IF ok THEN pc' = "remove" /\ NoFatal
               ELSE Fatal("stop", -1)
    /\ UNCHANGED <<scanVars, assetVars, tarVars, pullVars, copyFromContainer, credVars, hostFiles, hostFiles0, checked, staged,
                   collected, defers, imagePullErr, imageInspectErr, created, started,
                   statusCode, waitResolved, out, panicking>>

\* cli.ContainerRemove, fatal on an error; then the function returns.
ContainerRemove ==
    /\ pc = "remove"
    /\ calls' = Append(calls, "ContainerRemove")
    /\ \E ok \in BOOLEAN :
         IF ok THEN pc' = "return" /\ NoFatal
               ELSE Fatal("remove", -1)
    /\ UNCHANGED <<scanVars, assetVars, tarVars, pullVars, copyFromContainer, credVars, hostFiles, hostFiles0, checked, staged,
                   collected, defers, imagePullErr, imageInspectErr, created, started,
                   statusCode, waitResolved, out, panicking>>

\* ---------------------------------------- deferred functions, LIFO order
Top(st) == st[Len(st)]
Pop(st) == SubSeq(st, 1, Len(st) - 1)

\* defer func() { err = out.Close() }(): calling Close on a nil reader
\* panics; the remaining deferred functions still run.
DeferOutClose ==
    /\ pc = "return"
    /\ defers # <<>> /\ Top(defers) = "outClose"
    /\ defers' = Pop(defers)
    /\ panicking' = (panicking \/ out = "nil")
    /\ UNCHANGED <<scanVars, assetVars, tarVars, pullVars, pc, copyFromContainer, credVars, hostFiles, hostFiles0, checked,
                   staged, collected, calls, imagePullErr, imageInspectErr, created, started,
                   statusCode, waitResolved, out, fatalKind, fatalCode>>

\* defer func() { _ = cli.ContainerKill(ctx, resp.ID, "SIGKILL") }()
DeferKill ==
    /\ pc = "return"
    /\ defers # <<>> /\ Top(defers) = "kill"
    /\ defers' = Pop(defers)
    /\ calls' = Append(calls, "ContainerKill")
    /\ UNCHANGED <<scanVars, assetVars, tarVars, pullVars, pc, copyFromContainer, credVars, hostFiles, hostFiles0, checked,
                   staged, collected, imagePullErr, imageInspectErr, created, started,
                   statusCode, waitResolved, out, fatalKind, fatalCode, panicking>>

\* defer func() { err = errors.Join(err, reader.Close()) }()
DeferReaderClose ==
    /\ pc = "return"
    /\ defers # <<>> /\ Top(defers) = "readerClose"
    /\ defers' = Pop(defers)
    /\ UNCHANGED <<scanVars, assetVars, tarVars, pullVars, pc, copyFromContainer, credVars, hostFiles, hostFiles0, checked,
                   staged, collected, calls, imagePullErr, imageInspectErr, created, started,
                   statusCode, waitResolved, out, fatalKind, fatalCode, panicking>>

\* defer func() { err = errors.Join(err, cli.Close()) }()
DeferCliClose ==
    /\ pc = "return"
    /\ defers # <<>> /\ Top(defers) = "cliClose"
    /\ defers' = Pop(defers)
    /\ calls' = Append(calls, "Close")
    /\ UNCHANGED <<scanVars, assetVars, tarVars, pullVars, pc, copyFromContainer, credVars, hostFiles, hostFiles0, checked,
                   staged, collected, imagePullErr, imageInspectErr, created, started,
                   statusCode, waitResolved, out, fatalKind, fatalCode, panicking>>

\* All deferred functions have run: the function has returned, or the panic
\* ends the process.
Returned ==
    /\ pc = "return"
    /\ defers = <<>>
    /\ pc' = IF panicking THEN "panicked" ELSE "done"
    /\ UNCHANGED <<scanVars, assetVars, tarVars, pullVars, copyFromContainer, credVars, hostFiles, hostFiles0, checked, staged,
                   collected, calls, defers, imagePullErr, imageInspectErr, created, started,
                   statusCode, waitResolved, out, fatalKind, fatalCode, panicking>>

\* ------------------------------------------------------------------ Init
Init ==
    /\ pc = "preflight"
    /\ copyFromContainer \in [Outputs -> HostPaths]
    /\ imageLink \in ImageLinks
    /\ githubToken \in Tokens
    /\ dockerConfig \in DockerConfigs
    /\ cfgLoaded = FALSE
    /\ options = NoAuth
    /\ pullAuth = Unsent
    /\ hostFiles \in SUBSET HostPaths
    /\ hostFiles0 = hostFiles
    /\ checked = {}
    /\ staged = {}
    /\ collected = {}
    /\ calls = <<>>
    /\ defers = <<>>
    /\ imagePullErr = FALSE
    /\ imageInspectErr = "unset"
    /\ created = FALSE
    /\ started = FALSE
    /\ statusCode = -1
    /\ waitResolved = "none"
    /\ out = "unset"
    /\ fatalKind = "none"
    /\ fatalCode = -1
    /\ panicking = FALSE
    /\ tr = <<>>
    /\ trPos = 0
    /\ basePath = <<>>
    /\ destPath = <<>>
    /\ isSourceDir = FALSE
    /\ fs = (Root :> DirObj)
    /\ xResult = "nil"
    /\ xFaulted = FALSE
    /\ xLog = <<>>
    /\ euid = "user"
    /\ quiet \in BOOLEAN
    /\ NoDisplay
    /\ NoScan

Next ==
    \/ PreflightStat
    \/ NewClient
    \/ ResolveCredential
    \/ ImagePull
    \/ DrainQuiet
    \/ Decode
    \/ HandleEvent
    \/ ImageInspect
    \/ ContainerCreate
    \/ StageInput
    \/ ContainerStart
    \/ ContainerWait
    \/ SelectErrCh
    \/ SelectStatusCh
    \/ ContainerInspect
    \/ ContainerLogs
    \/ StdCopy
    \/ ExitCodeCheck
    \/ CollectOutput
    \/ ContainerStop
    \/ ContainerRemove
    \/ DeferOutClose
    \/ DeferKill
    \/ DeferReaderClose
    \/ DeferCliClose
    \/ Returned

Spec == Init /\ [][Next]_vars

\* ------------------------------------------------------------ ExtractTar
\* tar header type flags: TypeDir, TypeReg, TypeSymlink, TypeXGlobalHeader,
\* and one of the others (TypeFifo).
TypeDir == "5"
TypeReg == "0"
TypeSymlink == "2"
TypeXGlobalHeader == "g"
TypeFifo == "6"

\* The longest archive.
MaxEntries == 2

EntryNames ==
    {<<"b", "/">>, <<"b", "/", "x">>, <<"b", "/", "d", "/", "x">>,
     <<"b", "/", "l">>, <<"b", "/", ".", ".", "/", "e">>, <<"x">>}
LinkNames == {<<"/", "e">>, <<"x">>}
Contents == {"c1"}

\* A header; mode is hdr.Mode, 0755 unless set otherwise.
Hdr(name, typeflag, linkname, content) ==
    [name |-> name, typeflag |-> typeflag, linkname |-> linkname,
     content |-> content, mode |-> "rwx"]
WithMode(hdr, perm) == [hdr EXCEPT !.mode = perm]

\* The names of the entries that are links, read-only directories and
\* entries of unsupported type.
LinkEntryNames == {<<"b", "/">>, <<"b", "/", "d", "/", "x">>, <<"b", "/", "l">>}
ReadOnlyDirNames == {<<"b", "/">>}
SkippedNames == {<<"b", "/", "x">>, <<"x">>}

TarEntries ==
    {Hdr(n, TypeDir, <<>>, "") : n \in EntryNames}
    \cup {WithMode(Hdr(n, TypeDir, <<>>, ""), "r-x") : n \in ReadOnlyDirNames}
    \cup {Hdr(n, TypeReg, <<>>, c) : n \in EntryNames, c \in Contents}
    \cup {Hdr(n, TypeSymlink, l, "") : n \in LinkEntryNames, l \in LinkNames}
    \cup {Hdr(n, TypeFifo, <<>>, "") : n \in SkippedNames}
    \cup {Hdr(<<"p", "a", "x">>, TypeXGlobalHeader, <<>>, "")}

Archives == UNION {[1..n -> TarEntries] : n \in 0..MaxEntries}

\* relPath := TrimPrefix(TrimPrefix(hdr.Name, basePath), Separator);
\* target := destPath, or filepath.Join(destPath, relPath) for a directory.
Target(name, base, dest, isDir) ==
    LET relPath == TrimPrefix(TrimPrefix(name, base), <<Sep>>) IN
      IF isDir THEN Join(dest, relPath) ELSE dest

\* The branch of switch hdr.Typeflag that an entry takes.
EntryClassStrict(typeflag) ==
    CASE typeflag = TypeDir -> "dir"
      [] typeflag = TypeReg -> "reg"
      [] typeflag = TypeSymlink -> "symlink"
      [] OTHER -> "error"
EntryClass(typeflag) ==
    CASE typeflag = TypeDir -> "dir"
      [] typeflag = TypeReg -> "reg"
      [] typeflag = TypeSymlink -> "symlink"
      [] typeflag = TypeXGlobalHeader -> "skipTrace"
      [] OTHER -> "skipWarn"

\* The points at which a handler can fail for a reason outside the archive
\* (permission, disk full), by branch.
Faults(class) ==
    CASE class = "dir" -> {"none", "mkdir"}
      [] class = "reg" -> {"none", "mkdir", "create", "copy"}
      [] class = "symlink" -> {"none", "mkdir", "symlink"}
      [] OTHER -> {"none"}

\* A failure that removes what the extraction wrote before it.
FailedRollback(f) == [ok |-> FALSE, fs |-> (Root :> DirObj)]
Failed(f) == [ok |-> FALSE, fs |-> f]

\* handleDirectory: os.MkdirAll(target, os.FileMode(hdr.Mode))
handleDirectory(f, target, mode, fault) ==
    IF fault = "mkdir" THEN Failed(f) ELSE MkdirAll(f, target, mode)

\* handleRegularFile: os.MkdirAll(filepath.Dir(target)), os.Create(target),
\* io.Copy(outFile, tr).  A failed copy leaves the file created, without its
\* content.  The error of the deferred outFile.Close() is assigned to a local
\* and not returned.
handleRegularFile(f, target, content, fault) ==
    Eval(IF fault = "mkdir" THEN Failed(f)
         ELSE MkdirAll(f, Dir(target), "rwx"),
         LAMBDA m :
      IF ~m.ok THEN Failed(m.fs)
      ELSE IF fault = "create" THEN Failed(m.fs)
      ELSE Eval(Create(m.fs, target, IF fault = "copy" THEN "" ELSE content),
                LAMBDA c :
             IF ~c.ok THEN Failed(m.fs)
             ELSE IF fault = "copy" THEN Failed(c.fs)
             ELSE c))

\* handleSymlink: os.MkdirAll(filepath.Dir(target)), os.Symlink(Linkname, target)
handleSymlink(f, target, linkname, fault) ==
    Eval(IF fault = "mkdir" THEN Failed(f)
         ELSE MkdirAll(f, Dir(target), "rwx"),
         LAMBDA m :
      IF ~m.ok THEN Failed(m.fs)
      ELSE IF fault = "symlink" THEN Failed(m.fs)
      ELSE Symlink(m.fs, linkname, target))

\* One iteration of the loop of ExtractTar with tr.Next() returning a header.
ExtractEntry ==
    /\ pc = "extract"
    /\ xResult = "running"
    /\ trPos < Len(tr)
    /\ trPos' = trPos + 1
    /\ LET hdr == tr[trPos + 1]
           class == EntryClass(hdr.typeflag)
       IN \E fault \in Faults(class) :
          \E target \in {Target(hdr.name, basePath, destPath, isSourceDir)} :
          \E r \in {CASE class = "dir" ->
                           handleDirectory(fs, target, hdr.mode, fault)
                      [] class = "reg" ->
                           handleRegularFile(fs, target, hdr.content, fault)
                      [] class = "symlink" ->
                           handleSymlink(fs, target, hdr.linkname, fault)
                      [] class = "error" -> Failed(fs)
                      [] OTHER -> [ok |-> TRUE, fs |-> fs]} :
               /\ fs' = r.fs
               /\ xResult' = IF r.ok THEN "running" ELSE "err"
               /\ xFaulted' = (xFaulted \/ fault # "none")
               /\ xLog' = CASE class = "skipTrace" ->
                                 Append(xLog, <<"trace", trPos + 1>>)
                            [] class = "skipWarn" ->
                                 Append(xLog, <<"warn", trPos + 1>>)
                            [] OTHER -> xLog
    /\ UNCHANGED <<scanVars, assetVars, runVars, pullVars, euid, tr, basePath, destPath, isSourceDir>>

\* tr.Next() returned an error other than io.EOF (a corrupt or cut stream).
ExtractReadErr ==
    /\ pc = "extract"
    /\ xResult = "running"
    /\ xResult' = "err"
    /\ xFaulted' = TRUE
    /\ UNCHANGED <<scanVars, assetVars, runVars, pullVars, euid, tr, trPos, basePath, destPath, isSourceDir, fs, xLog>>

\* tr.Next() returned io.EOF: the loop ends and ExtractTar returns nil.
ExtractEOF ==
    /\ pc = "extract"
    /\ xResult = "running"
    /\ trPos = Len(tr)
    /\ xResult' = "nil"
    /\ UNCHANGED <<scanVars, assetVars, runVars, pullVars, euid, tr, trPos, basePath, destPath, isSourceDir, fs,
                   xFaulted, xLog>>

\* RunGhcrContainer has not been called: its state is as at construction.
NoRun ==
    /\ copyFromContainer = [o \in Outputs |-> 1]
    /\ imageLink = <<"ghcr.io", "seqra/img">>
    /\ githubToken = ""
    /\ dockerConfig = [loadErr |-> FALSE, password |-> ""]
    /\ cfgLoaded = FALSE
    /\ options = NoAuth
    /\ pullAuth = Unsent
    /\ hostFiles = {}
    /\ hostFiles0 = {}
    /\ checked = {}
    /\ staged = {}
    /\ collected = {}
    /\ calls = <<>>
    /\ defers = <<>>
    /\ imagePullErr = FALSE
    /\ imageInspectErr = "unset"
    /\ created = FALSE
    /\ started = FALSE
    /\ statusCode = -1
    /\ waitResolved = "none"
    /\ out = "unset"
    /\ fatalKind = "none"
    /\ fatalCode = -1
    /\ panicking = FALSE

\* One call ExtractTar(tr, basePath, destPath, isSourceDir); nothing exists at
\* destPath, its parent directory does.
TarInit ==
    /\ pc = "extract"
    /\ NoRun
    /\ tr \in Archives
    /\ trPos = 0
    /\ basePath = <<"b">>
    /\ destPath = <<"/", "o">>
    /\ isSourceDir \in BOOLEAN
    /\ fs = (Root :> DirObj)
    /\ xResult = "running"
    /\ xFaulted = FALSE
    /\ xLog = <<>>
    /\ euid \in {"root", "user"}
    /\ quiet = FALSE
    /\ NoDisplay
    /\ NoScan

TarNext ==
    \/ ExtractEntry
    \/ ExtractReadErr
    \/ ExtractEOF

SpecTar == TarInit /\ [][TarNext]_vars

\* ------------------------------------------------- CopyToContainer archive
\* The host directory that is staged, and where the archive is extracted.
SrcDir == <<Sep, "s">>
DstDir == <<Sep, "o">>

\* The names a staged tree may hold, relative to its root, in the order
\* filepath.Walk visits them (lexical); the tree uses the first MaxTreeNodes.
MaxTreeNodes == 4
NodeNames ==
    << <<"d">>, <<"d", Sep, "l">>, <<"d", Sep, "x">>, <<"l">>, <<"x">> >>
WalkOrder == SubSeq(NodeNames, 1, MaxTreeNodes)
NodeSet == {WalkOrder[i] : i \in 1..Len(WalkOrder)}

\* What a node of the tree can be.
NodeObjs ==
    {DirObj, DirWithMode("r-x"), FileObj("c1"), FileObj("c2"),
     LinkObj(<<"x">>), LinkObj(<<Sep, "e">>)}

\* The trees: a node below the root exists only inside a directory.
Trees ==
    {t \in UNION {[S -> NodeObjs] : S \in SUBSET NodeSet} :
       \A n \in DOMAIN t :
         Dir(n) # Dot => (Dir(n) \in DOMAIN t /\ t[Dir(n)].kind = "dir")}

\* The path of node n of the tree rooted at dir.
Under(dir, n) == dir \o <<Sep>> \o n

\* The file system that holds tree t at dir, next to what f holds.
Plant(f, dir, t) ==
    [q \in DOMAIN f \cup {dir} \cup {Under(dir, n) : n \in DOMAIN t} |->
       IF q = dir THEN DirObj
       ELSE IF \E n \in DOMAIN t : q = Under(dir, n)
              THEN t[CHOOSE n \in DOMAIN t : q = Under(dir, n)]
              ELSE f[q]]

\* hdr.Name = canonicalTarName(name, isDir): a directory gets a trailing "/".
canonicalTarName(name, isDir) == IF isDir THEN name \o <<Sep>> ELSE name

\* The header archive.TarWithOptions writes for the object at path, under
\* the entry name: type, permission bits, link target and content as
\* os.Lstat / os.Readlink / the file give them.
FileInfoHeader(f, path, name) ==
    LET obj == f[path] IN
      WithMode(Hdr(canonicalTarName(name, obj.kind = "dir"),
                   CASE obj.kind = "dir" -> TypeDir
                     [] obj.kind = "symlink" -> TypeSymlink
                     [] OTHER -> TypeReg,
                   IF obj.kind = "symlink" THEN obj.data ELSE <<>>,
                   IF obj.kind = "file" THEN obj.data ELSE ""),
               IF obj.kind = "dir" THEN obj.mode ELSE "rwx")

\* archive.TarWithOptions(parentDir, {IncludeFiles: [baseName],
\* RebaseNames: {baseName: containerDestPath}, IncludeSourceDir: true}):
\* the source directory and then everything below it in walk order, symbolic
\* links not followed, each entry name with the leading baseName replaced by
\* containerDestPath.
TarWithOptions(f, localDir, containerDestPath) ==
    LET present == SelectSeq(WalkOrder, LAMBDA n : Exists(f, Under(localDir, n)))
    IN <<FileInfoHeader(f, localDir, containerDestPath)>>
       \o [i \in 1..Len(present) |->
             FileInfoHeader(f, Under(localDir, present[i]),
                            Under(containerDestPath, present[i]))]

\* The destinations an input is rebased to (relative and absolute).
RebasePaths == {<<"b">>, <<Sep, "d", "a", "t", "a">>}

\* The archive of a tree at SrcDir, rebased to P, is handed to
\* ExtractTar(tr, P, DstDir, true); DstDir is missing or an empty directory.
StageInit ==
    /\ pc = "extract"
    /\ NoRun
    /\ \E t \in Trees, dstExists \in BOOLEAN, P \in RebasePaths :
         /\ fs = Plant(IF dstExists THEN (Root :> DirObj) @@ (DstDir :> DirObj)
                                    ELSE (Root :> DirObj),
                       SrcDir, t)
         /\ tr = TarWithOptions(fs, SrcDir, P)
         /\ basePath = P
    /\ trPos = 0
    /\ destPath = DstDir
    /\ isSourceDir = TRUE
    /\ xResult = "running"
    /\ xFaulted = FALSE
    /\ xLog = <<>>
    /\ euid \in {"root", "user"}
    /\ quiet = FALSE
    /\ NoDisplay
    /\ NoScan

SpecStage == StageInit /\ [][TarNext]_vars

\* One call DisplayInteractiveProgress(rd).
ProgressInit ==
    /\ pc = "decode"
    /\ NoRun
    /\ tr = <<>>
    /\ trPos = 0
    /\ basePath = <<>>
    /\ destPath = <<>>
    /\ isSourceDir = FALSE
    /\ fs = (Root :> DirObj)
    /\ xResult = "nil"
    /\ xFaulted = FALSE
    /\ xLog = <<>>
    /\ euid = "user"
    /\ quiet = FALSE
    /\ reader \in Streams
    /\ progress = ZeroProgress
    /\ layers = <<>>
    /\ layerOrder = <<>>
    /\ printed = <<>>
    /\ NoScan

ProgressNext ==
    \/ Decode
    \/ HandleEvent

\* The loop is a running goroutine: a step that can be taken is taken.
SpecProgress ==
    ProgressInit /\ [][ProgressNext]_vars /\ WF_vars(Decode) /\ WF_vars(HandleEvent)

\* --------------------------------------------- CopyFileFromContainer
\* os.Stat(p) returns no error: p names an object, symbolic links followed.
StatFollow(f, p) ==
    Eval(Phys(f, p), LAMBDA r : r.st = "ok" /\ Exists(f, r.path))

\* What can be at hostPath when the output loop starts: nothing (the
\* preflight check passed), or something created since.
HostPathStates ==
    {Root :> DirObj,
     (Root :> DirObj) @@ (DstDir :> FileObj("c0")),
     (Root :> DirObj) @@ (DstDir :> DirObj),
     (Root :> DirObj) @@ (DstDir :> LinkObj(<<Sep, "e">>))}

\* What cli.CopyFromContainer answers for a container path named "b":
\* stat.Mode.IsDir() and the archive, of a regular file, of a symbolic link,
\* or of a directory.
CopyOuts ==
    {[isDir |-> FALSE, tr |-> <<Hdr(<<"b">>, TypeReg, <<>>, "c1")>>]}
    \cup {[isDir |-> FALSE, tr |-> <<Hdr(<<"b">>, TypeSymlink, l, "")>>] :
            l \in LinkNames}
    \cup {[isDir |-> TRUE, tr |-> <<Hdr(<<"b", Sep>>, TypeDir, <<>>, "")>>],
          [isDir |-> TRUE, tr |-> <<Hdr(<<"b", Sep>>, TypeDir, <<>>, ""),
                                    Hdr(<<"b", Sep, "x">>, TypeReg, <<>>, "c1")>>]}

\* CopyFileFromContainer up to the call of utils.ExtractTar:
\* if _, err := os.Stat(hostPath); err == nil { return error }, then
\* cli.CopyFromContainer.  An error returned is fatal in the
\* loop of RunGhcrContainer.
CopyFileFromContainerCall ==
    /\ pc = "copyFrom"
    /\ \E o \in Outputs \ collected :
         /\ collected' = collected \cup {o}
         /\ IF StatFollow(fs, destPath)
              THEN /\ Fatal("collect", -1)
                   /\ UNCHANGED <<calls, tr, trPos, isSourceDir, xResult,
                                  xFaulted, xLog>>
              ELSE /\ calls' = Append(calls, "CopyFromContainer")
                   /\ \/ /\ Fatal("collect", -1)
                         /\ UNCHANGED <<tr, trPos, isSourceDir, xResult,
                                        xFaulted, xLog>>
                      \/ /\ \E a \in CopyOuts :
                              tr' = a.tr /\ isSourceDir' = a.isDir
                         /\ trPos' = 0
                         /\ xResult' = "running"
                         /\ xFaulted' = FALSE
                         /\ xLog' = <<>>
                         /\ pc' = "extract"
                         /\ NoFatal
    /\ UNCHANGED <<scanVars, assetVars, pullVars, copyFromContainer, credVars, hostFiles, hostFiles0,
                   checked, staged, defers, imagePullErr, imageInspectErr,
                   created, started, statusCode, waitResolved, out, panicking,
                   basePath, destPath, fs, euid>>

\* utils.ExtractTar has returned: the deferred reader.Close() runs (Fatalf on
\* its error), then an error of ExtractTar is returned and is fatal in the
\* loop; otherwise the loop goes on.
CopyFileFromContainerReturn ==
    /\ pc = "extract"
    /\ xResult \in {"nil", "err"}
    /\ \E closeOk \in BOOLEAN :
         IF ~closeOk THEN Fatal("archiveClose", -1)
         ELSE IF xResult = "err" THEN Fatal("collect", -1)
         ELSE pc' = "copyFrom" /\ NoFatal
    /\ UNCHANGED <<scanVars, assetVars, tarVars, pullVars, copyFromContainer, credVars, hostFiles,
                   hostFiles0, checked, staged, collected, calls, defers,
                   imagePullErr, imageInspectErr, created, started, statusCode,
                   waitResolved, out, panicking>>

\* The output loop of RunGhcrContainer with every mapping naming the host
\* path DstDir.
CollectInit ==
    /\ pc = "copyFrom"
    /\ NoRun
    /\ tr = <<>>
    /\ trPos = 0
    /\ basePath = <<"b">>
    /\ destPath = DstDir
    /\ isSourceDir = FALSE
    /\ fs \in HostPathStates
    /\ xResult = "nil"
    /\ xFaulted = FALSE
    /\ xLog = <<>>
    /\ euid \in {"root", "user"}
    /\ quiet = FALSE
    /\ NoDisplay
    /\ NoScan

CollectNext ==
    \/ CopyFileFromContainerCall
    \/ ExtractEntry
    \/ ExtractReadErr
    \/ ExtractEOF
    \/ CopyFileFromContainerReturn

SpecCollect == CollectInit /\ [][CollectNext]_vars

\* ------------------------------------------------------------- scan
\* How many times the scan command is invoked, one after the other, on the
\* same host.
MaxScans == 2

\* os.Remove(p) and os.RemoveAll(p).
Remove(f, p) == [q \in (DOMAIN f) \ {p} |-> f[q]]
RemoveAll(f, p) ==
    LET below(q) == Len(q) > Len(p) + 1 /\ SubSeq(q, 1, Len(p) + 1) = p \o <<Sep>>
    IN [q \in {q \in DOMAIN f : q # p /\ ~below(q)} |-> f[q]]

\* utils.GetRulesPath(globals.RulesBindVersion), a user ruleset, and
\* assetPath + ".temp".
RulesPath == <<Sep, "r">>
UserRuleSet == <<Sep, "u">>
TempSuffix == <<".", "t", "e", "m", "p">>
TmpPathOf(assetPath) == assetPath \o TempSuffix

\* os.MkdirTemp("", "seqra-*") of the n-th invocation (a name not in use),
\* and tempDirName + "/project-model".
Digits == <<"1", "2", "3", "4", "5", "6", "7", "8", "9">>
TempDirOf(n) == <<Sep, "t", Digits[n]>>
ProjectModelOf(tempDir) == tempDir \o <<Sep, "m">>

\* The release tarball of the ruleset: pax_global_header, the top directory
\* and the rule files.
RulesArchive ==
    <<Hdr(<<"p", "a", "x">>, TypeXGlobalHeader, <<>>, ""),
      Hdr(<<"b", Sep>>, TypeDir, <<>>, ""),
      Hdr(<<"b", Sep, "x">>, TypeReg, <<>>, "c1"),
      Hdr(<<"b", Sep, "d", Sep, "x">>, TypeReg, <<>>, "c1")>>

\* The first pass over the tarball: extended headers are skipped, the name of
\* the first other entry, cleaned, is basePath; no such entry is an error.
RECURSIVE FirstSegmentFrom(_, _)
FirstSegmentFrom(t, i) ==
    IF i > Len(t) THEN [ok |-> FALSE, basePath |-> <<>>]
    ELSE IF t[i].typeflag = TypeXGlobalHeader THEN FirstSegmentFrom(t, i + 1)
    ELSE Eval(Clean(TrimPrefix(t[i].name, <<".", Sep>>)), LAMBDA name :
           IF name = Dot THEN FirstSegmentFrom(t, i + 1)
           ELSE [ok |-> TRUE, basePath |-> name])

\* What scan leaves alone outside its own state, the position and the file
\* system.
scanRest ==
    <<pullVars, assetVars, copyFromContainer, credVars, hostFiles, hostFiles0,
      checked, staged, collected, calls, defers, imagePullErr, imageInspectErr,
      created, started, statusCode, waitResolved, out, panicking>>
extractVars ==
    <<tr, trPos, basePath, destPath, isSourceDir, xResult, xFaulted, xLog>>

\* Resolve project type: --only-scan or a project.yaml in the project: the
\* project is a project model; no project.yaml: compile-and-scan mode with a
\* temporary directory for the model; any other os.Stat error is fatal.
ScanResolveProject ==
    /\ pc = "scan"
    /\ \E mode \in {"onlyScan", "model", "compile", "statErr"}, ok \in BOOLEAN :
         CASE mode = "compile" /\ ok ->
                /\ tempDirName' = TempDirOf(scans)
                /\ fs' = Put(fs, TempDirOf(scans), DirObj)
                /\ pc' = "rules"
                /\ NoFatal
           [] mode = "compile" /\ ~ok ->
                /\ Fatal("mkdirTemp", -1)
                /\ UNCHANGED <<tempDirName, fs>>
           [] mode = "statErr" ->
                /\ Fatal("projectStat", -1)
                /\ UNCHANGED <<tempDirName, fs>>
           [] OTHER ->
                /\ pc' = "rules"
                /\ NoFatal
                /\ UNCHANGED <<tempDirName, fs>>
    /\ UNCHANGED <<scanRest, extractVars, euid, scans, absRuleSetPath, cleanup>>

\* The ruleset: the user's, or the bundled one at rulesPath, downloaded when
\* os.Stat(rulesPath) says it does not exist.
ScanResolveRules ==
    /\ pc = "rules"
    /\ \E choice \in {"user", "bundled", "pathErr"} :
         CASE choice = "user" ->
                /\ absRuleSetPath' = UserRuleSet
                /\ pc' = "run"
                /\ NoFatal
           [] choice = "pathErr" ->
                /\ Fatal("rulesPath", -1)
                /\ UNCHANGED absRuleSetPath
           [] OTHER ->
                IF ~StatFollow(fs, RulesPath)
                  THEN /\ pc' = "download"
                       /\ NoFatal
                       /\ UNCHANGED absRuleSetPath
                  ELSE /\ absRuleSetPath' = RulesPath
                       /\ pc' = "run"
                       /\ NoFatal
    /\ UNCHANGED <<scanRest, tarVars, scans, tempDirName, cleanup>>

\* DownloadAndUnpackGithubReleaseArchive up to the call of ExtractTar, by the
\* first step that fails.  The removal of tmpPath is deferred only once
\* os.Open has succeeded.  An error returned is fatal in scan.
DownloadOutcomes ==
    {"releaseErr", "getErr", "createErr", "copyErr", "openErr", "gzipErr", "ok"}
DownloadArchive ==
    /\ pc = "download"
    /\ \E outcome \in DownloadOutcomes :
       \E first \in {FirstSegmentFrom(RulesArchive, 1)} :
       LET tmpPath == TmpPathOf(RulesPath)
           made == Create(fs, tmpPath,
                          IF outcome = "copyErr" THEN "" ELSE "tgz")
       IN CASE outcome \in {"releaseErr", "getErr", "createErr"} \/ ~made.ok ->
                 /\ Fatal("download", -1)
                 /\ UNCHANGED <<fs, extractVars>>
            [] outcome \in {"copyErr", "openErr"} ->
                 /\ fs' = made.fs
                 /\ Fatal("download", -1)
                 /\ UNCHANGED extractVars
            [] outcome = "gzipErr" \/ ~first.ok ->
                 /\ fs' = Remove(made.fs, tmpPath)
                 /\ Fatal("download", -1)
                 /\ UNCHANGED extractVars
            [] OTHER ->
                 /\ fs' = made.fs
                 /\ tr' = RulesArchive
                 /\ trPos' = 0
                 /\ basePath' = first.basePath
                 /\ destPath' = RulesPath
                 /\ isSourceDir' = TRUE
                 /\ xResult' = "running"
                 /\ xFaulted' = FALSE
                 /\ xLog' = <<>>
                 /\ pc' = "extract"
                 /\ NoFatal
    /\ UNCHANGED <<scanRest, scanVars, euid>>

\* ExtractTar has returned: the deferred os.Remove(tmpPath) runs; an error is
\* fatal in scan, otherwise absRuleSetPath = rulesPath.
DownloadReturn ==
    /\ pc = "extract"
    /\ xResult \in {"nil", "err"}
    /\ fs' = Remove(fs, TmpPathOf(RulesPath))
    /\ IF xResult = "err"
         THEN Fatal("download", -1) /\ UNCHANGED absRuleSetPath
         ELSE /\ absRuleSetPath' = RulesPath
              /\ pc' = "run"
              /\ NoFatal
    /\ UNCHANGED <<scanRest, extractVars, euid, scans, tempDirName, cleanup>>

\* compile(...) in compile-and-scan mode, then RunGhcrContainer("Scan", ...):
\* either can end the process with logrus.Fatal.
ScanRun ==
    /\ pc = "run"
    /\ \E ok \in BOOLEAN :
         IF ok
           THEN /\ pc' = "report"
                /\ NoFatal
                /\ fs' = IF tempDirName = <<>> THEN fs
                          ELSE Put(fs, ProjectModelOf(tempDirName), DirObj)
           ELSE Fatal("run", -1) /\ UNCHANGED fs
    /\ UNCHANGED <<scanRest, extractVars, euid, scanVars>>

\* Whether scan returns before it reaches the removal of the temporary
\* directory: the report could not be read or parsed, or a rewritten report
\* or rewritten load-errors file could not be written.
EarlyReturn(reportNil, sarifPathSet, compat, writeOk, loadErrorsSet, saveOk) ==
    \/ reportNil
    \/ sarifPathSet /\ compat /\ ~writeOk
    \/ loadErrorsSet /\ compat /\ ~saveOk

\* The SARIF report is processed and scan returns, through the removal of the
\* temporary directory if it gets that far.
ScanReport ==
    /\ pc = "report"
    /\ pc' = "returned"
    /\ \E reportNil, sarifPathSet, compat, writeOk, loadErrorsSet, saveOk,
           removeOk \in BOOLEAN :
         IF EarlyReturn(reportNil, sarifPathSet, compat, writeOk, loadErrorsSet,
                        saveOk) \/ tempDirName = <<>>
           THEN UNCHANGED <<fs, cleanup>>
           ELSE IF removeOk
                  THEN fs' = RemoveAll(fs, tempDirName) /\ cleanup' = "removed"
                  ELSE UNCHANGED fs /\ cleanup' = "failed"
    /\ NoFatal
    /\ UNCHANGED <<scanRest, extractVars, euid, scans, tempDirName,
                   absRuleSetPath>>

\* The command is invoked again, on the file system the last invocation
\* left.
ScanAgain ==
    /\ pc \in {"returned", "exited"}
    /\ scans < MaxScans
    /\ scans' = scans + 1
    /\ pc' = "scan"
    /\ tempDirName' = <<>>
    /\ absRuleSetPath' = <<>>
    /\ cleanup' = "none"
    /\ fatalKind' = "none"
    /\ fatalCode' = -1
    /\ UNCHANGED <<scanRest, tarVars>>

\* The first invocation of scan, on a host without a rules directory.
ScanInit ==
    /\ pc = "scan"
    /\ NoRun
    /\ tr = <<>>
    /\ trPos = 0
    /\ basePath = <<>>
    /\ destPath = <<>>
    /\ isSourceDir = FALSE
    /\ fs = (Root :> DirObj)
    /\ xResult = "nil"
    /\ xFaulted = FALSE
    /\ xLog = <<>>
    /\ euid = "user"
    /\ quiet = FALSE
    /\ NoDisplay
    /\ scans = 1
    /\ tempDirName = <<>>
    /\ absRuleSetPath = <<>>
    /\ cleanup = "none"
    /\ expectedSize = 0
    /\ rc = <<>>
    /\ written = 0
    /\ dlResult = "none"

ScanNext ==
    \/ ScanResolveProject
    \/ ScanResolveRules
    \/ DownloadArchive
    \/ ExtractEntry
    \/ ExtractReadErr
    \/ ExtractEOF
    \/ DownloadReturn
    \/ ScanRun
    \/ ScanReport
    \/ ScanAgain

SpecScan == ScanInit /\ [][ScanNext]_vars

\* ------------------------------------------ DownloadGithubReleaseAsset
\* The largest asset, in blocks.
MaxSize == 2

AssetPath == <<Sep, "a">>

\* The body of the download: blocks, then its end, clean or a read error.
RECURSIVE Blocks(_)
Blocks(n) == IF n = 0 THEN <<>> ELSE Append(Blocks(n - 1), "k")
Bodies == {Blocks(n) \o <<end>> : n \in 0..MaxSize, end \in {"eof", "err"}}

\* What is at assetPath and at assetPath + ".temp" before the call.
AssetStates ==
    {Root :> DirObj,
     (Root :> DirObj) @@ (AssetPath :> FileObj(<<"o">>)),
     (Root :> DirObj) @@ (AssetPath :> DirObj),
     (Root :> DirObj) @@ (TmpPathOf(AssetPath) :> FileObj(<<"o">>)),
     (Root :> DirObj) @@ (AssetPath :> FileObj(<<"o">>))
                      @@ (TmpPathOf(AssetPath) :> DirObj)}

\* os.Rename(old, new): new is replaced, old is gone; an error when new is a
\* directory and old is not.
Rename(f, old, new) ==
    IF Exists(f, new) /\ f[new].kind = "dir" THEN [ok |-> FALSE, fs |-> f]
    ELSE [ok |-> TRUE, fs |-> Remove(Put(f, new, f[old]), old)]

\* A deferred function that closes the file and leaves it.
DeferredCloseOnly(f) == f

\* defer: tmpFile.Close(); os.Remove(tmpFile.Name())
DeferredCloseAndRemove(f) == Remove(f, TmpPathOf(AssetPath))

\* What the download leaves alone outside its own state, the position and
\* the file system.
assetRest ==
    <<pullVars, scanVars, extractVars, euid, copyFromContainer, credVars,
      hostFiles, hostFiles0, checked, staged, collected, calls, defers,
      imagePullErr, imageInspectErr, created, started, statusCode,
      waitResolved, out, fatalKind, fatalCode, panicking>>

\* GetReleaseByTag, the search for assetName among the assets and
\* DownloadReleaseAsset.
AssetLookup ==
    /\ pc = "lookup"
    /\ \E outcome \in {"releaseErr", "notFound", "downloadErr", "ok"} :
         IF outcome = "ok"
           THEN /\ expectedSize' \in 0..MaxSize
                /\ rc' \in Bodies
                /\ pc' = "createTmp"
                /\ UNCHANGED dlResult
           ELSE /\ dlResult' = outcome
                /\ pc' = "returned"
                /\ UNCHANGED <<expectedSize, rc>>
    /\ UNCHANGED <<assetRest, fs, written>>

\* tmpFile, err := os.Create(tmpPath); on success the close and removal of
\* the file are deferred.
AssetCreateTmp ==
    /\ pc = "createTmp"
    /\ \E fault \in BOOLEAN :
       \E made \in {Create(fs, TmpPathOf(AssetPath), <<>>)} :
         IF fault \/ ~made.ok
           THEN /\ dlResult' = "createErr"
                /\ pc' = "returned"
                /\ UNCHANGED fs
           ELSE /\ fs' = made.fs
                /\ pc' = "copy"
                /\ UNCHANGED dlResult
    /\ written' = 0
    /\ UNCHANGED <<assetRest, expectedSize, rc>>

\* written, err := io.Copy(tmpFile, rc), one block a step: a read error or a
\* failed write returns the error, through the deferred function.
AssetCopy ==
    /\ pc = "copy"
    /\ LET tmpPath == TmpPathOf(AssetPath) IN
       \E writeOk \in BOOLEAN :
         CASE Head(rc) = "eof" ->
                /\ pc' = "publish"
                /\ UNCHANGED <<fs, rc, written, dlResult>>
           [] Head(rc) = "k" /\ writeOk ->
                /\ fs' = Put(fs, tmpPath, FileObj(Append(fs[tmpPath].data, "k")))
                /\ written' = written + 1
                /\ rc' = Tail(rc)
                /\ UNCHANGED <<pc, dlResult>>
           [] OTHER ->
                /\ fs' = DeferredCloseAndRemove(fs)
                /\ dlResult' = "copyErr"
                /\ pc' = "returned"
                /\ UNCHANGED <<rc, written>>
    /\ UNCHANGED <<assetRest, expectedSize>>

\* if written != expectedSize: error; os.Rename(tmpFile.Name(), assetPath);
\* return, through the deferred function.
AssetPublish ==
    /\ pc = "publish"
    /\ pc' = "returned"
    /\ \E fault \in BOOLEAN :
       \E moved \in {Rename(fs, TmpPathOf(AssetPath), AssetPath)} :
         IF written # expectedSize
           THEN /\ dlResult' = "sizeErr"
                /\ fs' = DeferredCloseAndRemove(fs)
           ELSE IF fault \/ ~moved.ok
                  THEN /\ dlResult' = "renameErr"
                       /\ fs' = DeferredCloseAndRemove(fs)
                  ELSE /\ dlResult' = "nil"
                       /\ fs' = DeferredCloseAndRemove(moved.fs)
    /\ UNCHANGED <<assetRest, expectedSize, rc, written>>

\* One call DownloadGithubReleaseAsset(..., assetPath, token).
AssetInit ==
    /\ pc = "lookup"
    /\ NoRun
    /\ tr = <<>>
    /\ trPos = 0
    /\ basePath = <<>>
    /\ destPath = <<>>
    /\ isSourceDir = FALSE
    /\ fs \in AssetStates
    /\ xResult = "nil"
    /\ xFaulted = FALSE
    /\ xLog = <<>>
    /\ euid = "user"
    /\ quiet = FALSE
    /\ NoDisplay
    /\ NoScan

AssetNext ==
    \/ AssetLookup
    \/ AssetCreateTmp
    \/ AssetCopy
    \/ AssetPublish

SpecAsset == AssetInit /\ [][AssetNext]_vars

\* ================================================================ claims
\* The daemon call op has been issued.
Issued(op) == \E i \in 1..Len(calls) : calls[i] = op

\* Position of the first call of op in calls, 0 if never issued.
FirstIdx(op) ==
    IF Issued(op) THEN CHOOSE i \in 1..Len(calls) :
                          calls[i] = op /\ \A j \in 1..(i-1) : calls[j] # op
    ELSE 0

\* a was issued, and b after it.
Before(a, b) == Issued(a) /\ Issued(b) /\ FirstIdx(a) < FirstIdx(b)

\* C1: whenever ContainerCreate succeeded, ContainerRemove has been issued on
\* the container by the time the runner terminates, on every path.
C1_RemovedOnEveryPath ==
    (Terminated /\ created) => Issued("ContainerRemove")

\* A run that ended in the staging fatal with a created container that was
\* never removed.
C1_LeakedAfterStagingFailure ==
    /\ pc = "exited" /\ fatalKind = "stage"
    /\ created /\ ~Issued("ContainerRemove")

\* C2: once ContainerStart succeeded, ContainerKill is issued before the
\* runner terminates, on every exit path.
C2_KillOnEveryExit ==
    (Terminated /\ started) => Issued("ContainerKill")

\* A run ended by the non-zero-exit fatal with the kill guard still
\* registered and never run.
C2_KillGuardSkipped ==
    /\ pc = "exited" /\ fatalKind = "nonzero" /\ started
    /\ \E i \in 1..Len(defers) : defers[i] = "kill"
    /\ ~Issued("ContainerKill")

\* C3: when the container started and the wait delivered an error on the
\* error channel, the runner issues a kill and ContainerStop followed by
\* ContainerRemove before it ends.
C3_TeardownAfterWaitError ==
    (Terminated /\ fatalKind = "wait") =>
        /\ Issued("ContainerKill")
        /\ Before("ContainerStop", "ContainerRemove")

\* The run ended by the wait error: the last daemon call is ContainerWait.
C3_WaitErrorEndsRun ==
    /\ pc = "exited" /\ fatalKind = "wait" /\ started
    /\ calls[Len(calls)] = "ContainerWait"

C5_StopRemoveAfterNonZeroExit ==
    (Terminated /\ statusCode > 0) =>
        Before("ContainerStop", "ContainerRemove")

\* The non-zero-exit fatal ended the run with neither stop nor remove.
C5_NonZeroExitSkipsTeardown ==
    /\ pc = "exited" /\ fatalKind = "nonzero" /\ fatalCode = statusCode
    /\ ~Issued("ContainerStop") /\ ~Issued("ContainerRemove")

\* C6: for every non-zero exit code k delivered on the status channel, once
\* the log fetch was made (whether it succeeded or failed) the run ends with
\* the non-zero-exit fatal carrying k.
C6_ExitCodePropagates ==
    (Terminated /\ statusCode > 0 /\ Issued("ContainerLogs")) =>
        (fatalKind = "nonzero" /\ fatalCode = statusCode)

\* The run returned without any fatal although the status carried a non-zero
\* exit code: the log fetch failed and the function returned.
C6_NonZeroExitLost ==
    /\ pc \in {"done", "panicked"} /\ statusCode > 0
    /\ fatalKind = "none"
    /\ calls[Len(calls)] = "Close"

C9_LogFailureNonFatal ==
    /\ fatalKind # "stdcopy"
    /\ (Terminated /\ Issued("ContainerLogs") /\ statusCode = 0
          /\ fatalKind \notin {"collect", "archiveClose", "stop", "remove"}) =>
         /\ collected = Outputs
         /\ Before("ContainerStop", "ContainerRemove")

\* The log fetch failed on an exit code 0 and the run ended with no output
\* collected and no stop or remove.
C9_LogFetchFailureEndsRun ==
    /\ pc \in {"done", "panicked"} /\ statusCode = 0
    /\ calls[Len(calls)] = "Close"
    /\ collected = {} /\ ~Issued("ContainerStop") /\ ~Issued("ContainerRemove")

\* C10: when collecting an output mapping fails, the run is failed and
\* ContainerStop and ContainerRemove are still attempted before the runner
\* terminates.
C10_TeardownAfterOutputFailure ==
    (Terminated /\ fatalKind = "collect") =>
        (Issued("ContainerStop") /\ Issued("ContainerRemove"))

\* The output-collection fatal ended the run right after a copy-out.
C10_OutputFailureEndsRun ==
    /\ pc = "exited" /\ fatalKind = "collect"
    /\ calls[Len(calls)] = "CopyFromContainer"
    /\ ~Issued("ContainerStop")

\* n copies of op.
Repeat(op, n) == [i \in 1..n |-> op]

\* The container operations of the daemon client.
ContainerOps ==
    {"ContainerCreate", "CopyToContainer", "ContainerStart", "ContainerWait",
     "ContainerInspect", "ContainerLogs", "CopyFromContainer",
     "ContainerStop", "ContainerRemove", "ContainerKill"}

\* C11: the non-zero-exit condition and output collection are independent:
\* when the run reports a non-zero exit code, output collection has been
\* attempted for the output mappings.
C11_OutputsCollectedOnNonZeroExit ==
    fatalKind = "nonzero" => (collected # {} /\ Issued("CopyFromContainer"))

\* The non-zero-exit fatal ended the run right after the log fetch, with no
\* output mapping visited.
C11_NonZeroExitSkipsOutputs ==
    /\ pc = "exited" /\ fatalKind = "nonzero" /\ statusCode > 0
    /\ calls[Len(calls)] = "ContainerLogs"
    /\ collected = {}

\* The daemon calls of a run in which everything succeeds.
HappyCalls ==
    <<"ImagePull", "ImageInspect", "ContainerCreate">>
    \o Repeat("CopyToContainer", NumInputs)
    \o <<"ContainerStart", "ContainerWait", "ContainerInspect", "ContainerLogs">>
    \o Repeat("CopyFromContainer", NumOutputs)
    \o <<"ContainerStop", "ContainerRemove", "ContainerKill", "Close">>

C13_ClientClosedOnEveryPath ==
    (Terminated /\ Issued("ImagePull")) => Issued("Close")

\* The create fatal ended the run with the deferred close still registered.
C13_ClientLeakedOnFatal ==
    /\ pc = "exited" /\ fatalKind = "create"
    /\ defers # <<>> /\ defers[1] = "cliClose"
    /\ ~Issued("Close")

\* C14 as stated: ContainerKill is never issued after ContainerStop or
\* ContainerRemove, and Close is never followed by a container operation.
C14_KillBeforeStopRemove ==
    /\ \A i, j \in 1..Len(calls) :
         (i < j /\ calls[i] \in {"ContainerStop", "ContainerRemove"})
            => calls[j] # "ContainerKill"
    /\ \A i, j \in 1..Len(calls) :
         (i < j /\ calls[i] = "Close") => calls[j] \notin ContainerOps

\* C14 amended: ContainerRemove is issued only after ContainerStop, the
\* deferred ContainerKill is never followed by ContainerStop or
\* ContainerRemove (it runs at the return, after them), and Close is the last
\* call: no daemon call follows it.
C14_CleanupOrder ==
    /\ \A j \in 1..Len(calls) :
         calls[j] = "ContainerRemove" =>
            \E i \in 1..(j-1) : calls[i] = "ContainerStop"
    /\ \A i, j \in 1..Len(calls) :
         (i < j /\ calls[i] = "ContainerKill")
            => calls[j] \notin {"ContainerStop", "ContainerRemove"}
    /\ \A i \in 1..Len(calls) : calls[i] = "Close" => i = Len(calls)

\* A run that issued stop, remove, the deferred kill and the close.
C14_AllCleanupIssued ==
    /\ pc = "done"
    /\ Before("ContainerStop", "ContainerRemove")
    /\ Before("ContainerRemove", "ContainerKill")
    /\ Before("ContainerKill", "Close")

\* C15: an error from closing a secondary resource (the input tar stream, the
\* output archive stream, the pull reader, the log reader) never ends the
\* run: no fatal is raised by a close.
C15_CloseErrorsNonFatal ==
    fatalKind \notin {"tarClose", "archiveClose"}

\* The close of the output archive stream ended the run: the copy-out was
\* made, and neither stop nor remove followed.
C15_ArchiveCloseEndsRun ==
    /\ pc = "exited" /\ fatalKind = "archiveClose"
    /\ calls[Len(calls)] = "CopyFromContainer"
    /\ ~Issued("ContainerStop") /\ ~Issued("ContainerRemove")

\* C16: the wait is resolved once, by the value delivered first; when the
\* error channel delivers an error the run is fatal and no status is read;
\* an exit code is held only after a receive on the status channel, and the
\* non-zero-exit fatal carries that code.
C16_WaitRace ==
    /\ waitResolved = "err" =>
          (pc = "exited" /\ fatalKind = "wait" /\ statusCode = -1)
    /\ (statusCode # -1) <=> (waitResolved = "status")
    /\ fatalKind = "nonzero" => (fatalCode = statusCode /\ statusCode > 0)
    /\ waitResolved # "none" => (pc # "select" /\ Issued("ContainerWait"))

\* The error channel delivered an error and the run ended on it.
C16_ErrorSignalWon ==
    waitResolved = "err" /\ pc = "exited" /\ statusCode = -1

\* C17: the wait has no timeout: while neither channel has delivered, the
\* runner stays in the select and has issued no kill, stop or remove; the
\* runner leaves the select only by a receive on one of the two channels.
C17_NoWaitTimeout ==
    /\ pc = "select" =>
          /\ waitResolved = "none"
          /\ calls[Len(calls)] = "ContainerWait"
    /\ waitResolved = "none" =>
          /\ ~Issued("ContainerKill")
          /\ ~Issued("ContainerStop")
          /\ ~Issued("ContainerRemove")
          /\ Issued("ContainerWait") => pc = "select"

\* The runner is blocked in the select with nothing delivered.
C17_BlockedInSelect ==
    pc = "select" /\ waitResolved = "none" /\ started

\* C18: for a ghcr.io image, a non-empty explicit token is the password sent
\* with the fixed username and the credential store is not consulted; with
\* an empty token the store's password is sent if it is non-empty; otherwise
\* the pull is anonymous.  The pull carries a registry-auth header exactly
\* when a credential is present.
C18_CredentialResolution ==
    Issued("ImagePull") =>
      LET ghcr == imageLink[1] = "ghcr.io"
          stored == dockerConfig.password
      IN /\ (ghcr /\ githubToken # "") =>
               /\ pullAuth = EncodeAuth("USERNAME", githubToken)
               /\ ~cfgLoaded
         /\ (ghcr /\ githubToken = "" /\ stored # "") =>
               /\ pullAuth = EncodeAuth("USERNAME", stored)
               /\ cfgLoaded
         /\ (ghcr /\ githubToken = "" /\ stored = "") => pullAuth = NoAuth
         /\ (pullAuth # NoAuth) <=> (ghcr /\ (githubToken # "" \/ stored # ""))
         /\ pullAuth # Unsent

\* A ghcr.io pull made with the explicit token while the store also holds a
\* password.
C18_TokenOverStore ==
    /\ Issued("ImagePull")
    /\ imageLink[1] = "ghcr.io"
    /\ githubToken = "tok" /\ dockerConfig.password = "stored"
    /\ pullAuth = EncodeAuth("USERNAME", "tok")

\* ------------------------------------------------------------ ExtractTar

\* The step just taken read entry trPos + 1 of the archive.
EntryStep == pc = "extract" /\ trPos' = trPos + 1

Supported(typeflag) == typeflag \in {TypeDir, TypeReg, TypeSymlink}

\* p resolves in f to an existing object of the given kind.
KindAt(f, p, kind) ==
    Eval(Phys(f, p), LAMBDA r :
      r.st = "ok" /\ Exists(f, r.path) /\ f[r.path].kind = kind)

\* p resolves in f to a regular file holding content.
FileAt(f, p, content) ==
    Eval(Phys(f, p), LAMBDA r :
      r.st = "ok" /\ Exists(f, r.path) /\ f[r.path] = FileObj(content))

\* The directory entry p of f is a symbolic link to linkname.
LinkAt(f, p, linkname) ==
    Eval(Entry(f, p), LAMBDA e :
      e.ok /\ Exists(f, e.path) /\ f[e.path] = LinkObj(linkname))

\* The archive is one global header followed by one regular file.
HeaderThenFile ==
    /\ Len(tr) = 2
    /\ tr[1].typeflag = TypeXGlobalHeader
    /\ tr[2].typeflag = TypeReg

\* C19: an entry whose type is not directory, regular file or symlink is
\* skipped: reading it writes nothing, does not end the extraction with an
\* error, and leaves a log line; the entries after it are still extracted.
\* With no failure from the host, a global header followed by a regular file
\* never yields an error, and once the file entry is read the file is there
\* with its content.
C19_SkipUnsupported ==
    /\ [][(EntryStep /\ ~Supported(tr[trPos + 1].typeflag)) =>
            /\ fs' = fs
            /\ xResult' = "running"
            /\ Len(xLog') = Len(xLog) + 1]_vars
    /\ [](HeaderThenFile /\ ~xFaulted =>
            /\ xResult # "err"
            /\ trPos >= 1 => xLog = <<<<"trace", 1>>>>
            /\ trPos = 2 =>
                 FileAt(fs, Target(tr[2].name, basePath, destPath, isSourceDir),
                        tr[2].content))

\* A global header and then b/d/x were read, ExtractTar returned nil and the
\* file is on disk.
C19_HeaderSkippedFileWritten ==
    /\ HeaderThenFile /\ ~xFaulted /\ isSourceDir
    /\ tr[2].name = <<"b", "/", "d", "/", "x">>
    /\ xResult = "nil"
    /\ xLog = <<<<"trace", 1>>>>
    /\ FileAt(fs, <<"/", "o", "/", "d", "/", "x">>, tr[2].content)

\* The entry name with basePath removed from its front when it starts with
\* basePath, and then one separator removed from the front when there is one.
Stripped(name) ==
    LET n == Len(basePath)
        a == IF Len(name) >= n /\ SubSeq(name, 1, n) = basePath
               THEN SubSeq(name, n + 1, Len(name)) ELSE name
    IN IF a # <<>> /\ a[1] = Sep THEN SubSeq(a, 2, Len(a)) ELSE a

\* Where the claim places the entry called name.
ExpectedTarget(name) ==
    IF isSourceDir THEN Join(destPath, Stripped(name)) ELSE destPath

\* C20: every directory, regular-file or symlink entry that is handled
\* without error leaves its object at destPath joined with the stripped entry
\* name when isSourceDir is true and at destPath itself when it is false: a
\* directory for a directory entry, the file with the entry's content for a
\* regular file, the link for a symlink; for a file and a link the parent of
\* the target is a directory afterwards.
C20_TargetRule ==
    [][(EntryStep /\ xResult' = "running") =>
         LET hdr == tr[trPos + 1] IN
           \A t \in {ExpectedTarget(hdr.name)} :
             CASE hdr.typeflag = TypeDir -> KindAt(fs', t, "dir")
               [] hdr.typeflag = TypeReg ->
                    KindAt(fs', Dir(t), "dir") /\ FileAt(fs', t, hdr.content)
               [] hdr.typeflag = TypeSymlink ->
                    KindAt(fs', Dir(t), "dir") /\ LinkAt(fs', t, hdr.linkname)
               [] OTHER -> TRUE]_vars

\* b/d/x and then the link b/l were extracted under /o: /o/d was created for
\* the file, and both objects are where the rule puts them.
C20_NestedFileAndLink ==
    /\ isSourceDir /\ trPos = 2 /\ xResult = "running" /\ ~xFaulted
    /\ tr[1] = Hdr(<<"b", "/", "d", "/", "x">>, TypeReg, <<>>, "c1")
    /\ tr[2] = Hdr(<<"b", "/", "l">>, TypeSymlink, <<"x">>, "")
    /\ KindAt(fs, <<"/", "o", "/", "d">>, "dir")
    /\ FileAt(fs, <<"/", "o", "/", "d", "/", "x">>, "c1")
    /\ LinkAt(fs, <<"/", "o", "/", "l">>, <<"x">>)

\* --------------------------------------------------- pipeline ordering
\* How many times the daemon call op has been issued.
NumCalls(op) == Cardinality({i \in 1..Len(calls) : calls[i] = op})

\* Every call of a is issued before every call of b.
AllBefore(a, b) ==
    \A i, j \in 1..Len(calls) : (calls[i] = a /\ calls[j] = b) => i < j

\* The step just taken issued the daemon call op.
Issues(op) == calls' = Append(calls, op)

CleanupOps == {"ContainerStop", "ContainerRemove", "ContainerKill", "Close"}

\* C23: once a fatal error has been raised the process is over, and any
\* daemon call issued after it is a cleanup call: no upload, start, wait,
\* inspect, log fetch or copy-out follows, and no further mapping is visited.
C23_NothingAfterFatal ==
    /\ [](fatalKind # "none" => pc = "exited")
    /\ [][fatalKind # "none" =>
            /\ calls' # calls => Top(calls') \in CleanupOps
            /\ UNCHANGED <<staged, collected, started, out>>]_vars

\* The staging of the first input was fatal: the other input was not
\* visited and the container was never started.
C23_FatalDuringStaging ==
    /\ fatalKind = "stage" /\ pc = "exited"
    /\ created /\ Cardinality(staged) = 1
    /\ ~Issued("ContainerStart")

\* C24: every upload is issued for an input mapping not visited before, to a
\* created container that has not been started; when ContainerStart is issued
\* every input mapping has been visited, one upload was issued for each, all of
\* them after ContainerCreate and before ContainerStart; and after a failed
\* upload ContainerStart is never issued.
C24_StagingBetweenCreateAndStart ==
    /\ [][Issues("CopyToContainer") =>
            /\ created /\ ~Issued("ContainerStart")
            /\ \E i \in Inputs \ staged : staged' = staged \cup {i}]_vars
    /\ [](Issued("ContainerStart") =>
            /\ staged = Inputs
            /\ NumCalls("CopyToContainer") = NumInputs
            /\ AllBefore("ContainerCreate", "CopyToContainer")
            /\ AllBefore("CopyToContainer", "ContainerStart"))
    /\ [](fatalKind \in {"stage", "tarClose"} => ~Issued("ContainerStart"))

\* Every input was uploaded and the container was started after them.
C24_StartedAfterAllUploads ==
    /\ started
    /\ NumCalls("CopyToContainer") = NumInputs
    /\ calls[Len(calls)] = "ContainerStart"

\* C25: output collection visits each output mapping at most once; a copy-out
\* is issued only after the wait has resolved and the log fetch has been
\* issued, and never after ContainerStop.
C25_CollectAfterLogsBeforeStop ==
    /\ NumCalls("CopyFromContainer") <= Cardinality(collected)
    /\ collected # {} =>
         /\ waitResolved # "none"
         /\ Issued("ContainerLogs")
    /\ AllBefore("ContainerWait", "CopyFromContainer")
    /\ AllBefore("ContainerLogs", "CopyFromContainer")
    /\ AllBefore("CopyFromContainer", "ContainerStop")
    /\ Issued("ContainerStop") => collected = Outputs

\* The select received a nil value on errCh and the output loop ran: a
\* copy-out was issued in a run that never fetched the logs.
C25_CopyOutWithoutLogs ==
    /\ waitResolved = "nilErr"
    /\ Issued("CopyFromContainer")
    /\ ~Issued("ContainerLogs")

\* C29: output collection is attempted only in runs in which a status was
\* received on statusCh with exit code 0.
C29_OutputsOnlyAfterExitZero ==
    (collected # {} \/ Issued("CopyFromContainer")) =>
        (waitResolved = "status" /\ statusCode = 0)

\* A value was received on errCh, no status and no exit code exist, and a
\* copy-out was issued.
C29_OutputsAfterErrChValue ==
    /\ waitResolved = "nilErr" /\ statusCode = -1
    /\ ~Issued("ContainerInspect")
    /\ Issued("CopyFromContainer")

\* C30: ContainerRemove is issued at most once, only after a ContainerStop
\* that returned without error; when ContainerStop failed the process has
\* ended and ContainerRemove was not issued.
C30_RemoveOnlyAfterStop ==
    /\ NumCalls("ContainerRemove") <= 1
    /\ NumCalls("ContainerStop") <= 1
    /\ Issued("ContainerRemove") =>
         /\ Before("ContainerStop", "ContainerRemove")
         /\ fatalKind \in {"none", "remove"}
    /\ fatalKind = "stop" => (pc = "exited" /\ ~Issued("ContainerRemove"))

\* ContainerStop failed: the run ended there, without ContainerRemove.
C30_StopFailedNoRemove ==
    /\ fatalKind = "stop" /\ pc = "exited"
    /\ calls[Len(calls)] = "ContainerStop"

\* ------------------------------------------------- partial extraction
\* C22: when ExtractTar ends with an error, whether from reading the stream
\* or from a write, every object that was on the host before the failing step
\* is still there with its kind, and with its data unless it is a file the
\* failing entry itself had opened; nothing is removed.  After the error no
\* further entry is read.
C22_NoRollback ==
    /\ [][xResult' = "err" =>
            \A p \in DOMAIN fs :
              /\ p \in DOMAIN fs'
              /\ fs'[p].kind = fs[p].kind
              /\ fs'[p] = fs[p] \/ fs'[p] = FileObj("")]_vars
    /\ [][xResult = "err" => UNCHANGED <<fs, trPos, xResult>>]_vars

\* b/x was written, then the second entry failed: ExtractTar returned an
\* error and /o is left holding the first file.
C22_PartialDestination ==
    /\ xResult = "err" /\ isSourceDir
    /\ Len(tr) = 2 /\ trPos = 2
    /\ tr[1] = Hdr(<<"b", "/", "x">>, TypeReg, <<>>, "c1")
    /\ FileAt(fs, <<"/", "o", "/", "x">>, "c1")

\* ---------------------------------------------------- staging round trip
\* The objects below dir, by their path relative to dir.
TreeAt(f, dir) ==
    LET n == Len(dir) + 1
        below == {q \in DOMAIN f : Len(q) > n /\ SubSeq(q, 1, n) = dir \o <<Sep>>}
    IN [r \in {SubSeq(q, n + 1, Len(q)) : q \in below} |-> f[Under(dir, r)]]

\* C21: when the archive of the tree at SrcDir, rebased to P, has been
\* extracted with basePath P and isSourceDir true into a missing or empty
\* DstDir, DstDir is a directory holding the same relative paths as SrcDir,
\* each with the same kind, the same file content and the same link target;
\* and without a failure of the host the extraction does not end in an error.
C21_RoundTrip ==
    /\ xResult = "nil" =>
         /\ Exists(fs, DstDir) /\ fs[DstDir] = DirObj
         /\ TreeAt(fs, DstDir) = TreeAt(fs, SrcDir)
    /\ ~xFaulted => xResult # "err"

\* The tree holds a directory without write permission and a file in it; the
\* process is not root.  The directory was created at the destination with
\* the same bits, the file could not be created in it, and the extraction
\* ended in an error with no failure of the host.
C21_ReadOnlyDirNotReproduced ==
    /\ euid = "user" /\ ~xFaulted /\ xResult = "err"
    /\ fs[Under(SrcDir, <<"d">>)] = DirWithMode("r-x")
    /\ FileAt(fs, Under(SrcDir, <<"d", Sep, "x">>), "c1")
    /\ KindAt(fs, Under(DstDir, <<"d">>), "dir")
    /\ ~Exists(fs, Under(DstDir, <<"d", Sep, "x">>))

\* ------------------------------------------------- pull progress stream
\* C26: when the pull request succeeded, ImageInspect and ContainerCreate are
\* issued only after the pull stream was read to its end, with Config.Quiet
\* and without; while the stream is being read neither has been issued.
C26_PullDrainedBeforeInspect ==
    /\ (~imagePullErr /\ (NumCalls("ImageInspect") > 0 \/ NumCalls("ContainerCreate") > 0))
         => IsDrained(reader)
    /\ pc \in {"drain", "decode", "handle"}
         => NumCalls("ImageInspect") = 0 /\ NumCalls("ContainerCreate") = 0

\* With Config.Quiet a pull stream that ended in a read error was read to
\* that end and the container was created.
C26_QuietDrainedThenCreate ==
    /\ quiet /\ ~imagePullErr
    /\ reader = <<Item("readErr", "", "", "")>>
    /\ NumCalls("ContainerCreate") > 0

\* C27: the rendering order holds each key at most once, and a redraw prints
\* one line for each key, also for the keys of events without an identifier.
C27_OneLinePerKey ==
    /\ \A i, j \in 1..Len(layerOrder) : layerOrder[i] = layerOrder[j] => i = j
    /\ Len(printed) = Cardinality(DOMAIN layers)

\* Two events without an identifier and with the same status have arrived:
\* their key is in the rendering order twice and the status was printed
\* twice.
C27_SameStatusTwice ==
    /\ layerOrder = <<<<"message_", "s">>, <<"message_", "s">>>>
    /\ DOMAIN layers = {<<"message_", "s">>}
    /\ printed = <<<<"s">>, <<"s">>>>

\* C28: for every finite stream the read loop of DisplayInteractiveProgress
\* returns, whether the stream closes cleanly or ends with a read error, a
\* truncated event or a malformed event.
C28_LoopReturns == <>(pc = "inspect")

\* The stream was closed in the middle of an event: every event before it
\* was read, Decode returned an error that is not io.EOF, and the loop goes
\* on to the next Decode of the same stream.
C28_TruncatedKeepsLooping ==
    /\ pc = "handle"
    /\ progress.err = "unexpectedEOF"
    /\ reader = <<Item("cut", "", "", "")>>
    /\ layerOrder # <<>>

\* ----------------------------------------------------- no-clobber guard
\* C31: a call of CopyFileFromContainer for a host path at which something
\* exists issues no daemon copy-out, leaves the file system as it is and
\* returns an error (which ends the run).
C31_NoClobberPerOutput ==
    [][(collected' # collected /\ Exists(fs, destPath))
         => /\ calls' = calls
            /\ fs' = fs
            /\ fatalKind' = "collect"]_vars

\* Nothing was at hostPath when the loop started.  The first mapping
\* extracted a symbolic link there whose target does not exist on the host;
\* the second mapping, to the same hostPath, passed the guard, issued its
\* copy-out, and its regular file was written through the link.
C31_WrittenThroughLink ==
    /\ collected = {1, 2}
    /\ NumCalls("CopyFromContainer") = 2
    /\ LinkAt(fs, DstDir, <<Sep, "e">>)
    /\ FileAt(fs, <<Sep, "e">>, "c1")
    /\ ~xFaulted /\ xResult = "nil"

\* ------------------------------------------------------- containment
\* The path p is dir or lies below it.
AtOrBelow(p, dir) ==
    \/ p = dir
    \/ Len(p) > Len(dir) + 1 /\ SubSeq(p, 1, Len(dir) + 1) = dir \o <<Sep>>

\* C32: every object that ExtractTar creates is at destPath or below it,
\* whatever the names and the links of the archive (only the root directory
\* exists before the call).
C32_NothingOutsideDestPath ==
    \A p \in DOMAIN fs : p = Root \/ AtOrBelow(p, destPath)

\* A directory archive whose first entry is the regular file "b/../e" was
\* extracted with no failure of the host: the file is at /e, beside destPath.
C32_EscapedByDotDot ==
    /\ isSourceDir /\ ~xFaulted /\ trPos >= 1
    /\ tr[1] = Hdr(<<"b", Sep, ".", ".", Sep, "e">>, TypeReg, <<>>, "c1")
    /\ FileAt(fs, <<Sep, "e">>, "c1")
    /\ ~Exists(fs, destPath)

\* ----------------------------------------------------------------- scan
\* The rules directory holds everything the ruleset archive holds.
CompleteRules(f) ==
    /\ KindAt(f, RulesPath, "dir")
    /\ FileAt(f, Under(RulesPath, <<"x">>), "c1")
    /\ FileAt(f, Under(RulesPath, <<"d", Sep, "x">>), "c1")

\* C33: whenever a scan finds the bundled rules directory and skips the
\* download, the directory holds a complete extraction of the ruleset
\* archive.
C33_SkippedDownloadMeansComplete ==
    [][(pc = "rules" /\ pc' = "run" /\ absRuleSetPath' = RulesPath)
         => CompleteRules(fs)]_vars

\* The extraction of the first invocation failed after it had created the
\* rules directory; the second invocation skipped the download and runs the
\* analyzer with the directory, which lacks a rule file.
C33_PartialRulesUsed ==
    /\ scans = 2 /\ pc = "run" /\ absRuleSetPath = RulesPath
    /\ xResult = "err" /\ trPos < Len(tr)
    /\ KindAt(fs, RulesPath, "dir")
    /\ ~Exists(fs, Under(RulesPath, <<"d", Sep, "x">>))

\* C34: when scan has returned in compile-and-scan mode, the temporary
\* directory it created is gone (unless its removal was tried and failed).
C34_TempDirRemovedOnReturn ==
    (pc = "returned" /\ tempDirName # <<>> /\ cleanup # "failed")
      => ~Exists(fs, tempDirName)

\* scan returned early in compile-and-scan mode: the removal was never
\* reached, and the temporary directory and the project model in it are
\* still there.
C34_TempDirLeftOnEarlyReturn ==
    /\ pc = "returned" /\ cleanup = "none"
    /\ tempDirName = TempDirOf(scans)
    /\ KindAt(fs, tempDirName, "dir")
    /\ KindAt(fs, ProjectModelOf(tempDirName), "dir")

\* ------------------------------------------------ asset publication
\* What is at assetPath differs between the two states of a step.
AssetChanged ==
    \/ Exists(fs, AssetPath) # Exists(fs', AssetPath)
    \/ Exists(fs, AssetPath) /\ Exists(fs', AssetPath)
         /\ fs[AssetPath] # fs'[AssetPath]

\* The call returned after it had created the temporary file.
ReturnedAfterCreate == dlResult \in {"copyErr", "sizeErr", "renameErr", "nil"}

====
